---- MODULE Spec2Model ----
(***************************************************************************)
(* Cero: session manager, subscription/entitlement engine and billing      *)
(* ledger over a single SQLite connection.                                 *)
(*                                                                         *)
(* The store is modelled as the connection's view of the tables            *)
(* (subscriptions, billing_events, sessions), the durably committed copy   *)
(* of the billing tables, and the connection's open-transaction flag.      *)
(* Every handler is one action; the outcome of each SQLite call the        *)
(* handler makes is an input of the action.                                *)
(***************************************************************************)
EXTENDS Integers, Sequences, FiniteSets, TLC

VARIABLES
    now,              \* time(NULL), seconds
    subscriptions,    \* subscriptions table as this connection reads it
    billing_events,   \* billing_events table as this connection reads it
    committed,        \* durably committed copy of the two billing tables
    in_txn,           \* the connection has an open transaction
    sessions,         \* sessions table: token -> row
    rate_limits,      \* rate_limits table: (identifier, timestamp) -> rows
    pending,          \* calls of subscription_update waiting for the thread
    req,              \* http_request_t context of the request being served
    resp,             \* http_response_t of the last handler
    logs,             \* log lines written by the last operation
    ret,              \* return value of the last operation
    call              \* the last operation, its inputs and the state before it

vars == <<now, subscriptions, billing_events, committed, in_txn,
          sessions, rate_limits, pending, req, resp, logs, ret, call>>

(***************************************************************************)
(* Bounds of the model                                                     *)
(***************************************************************************)
MaxT == 4          \* SpecEntitle: stored timestamps range over 0..MaxT
MaxDays == 8       \* SpecSession: the clock runs over MaxDays days
MaxEvents == 2     \* SpecBilling: rows in billing_events
MaxRequests == 1   \* SpecServer: requests recorded beyond one full window
MaxChecks == 3     \* SpecRate: requests recorded beyond the ones of the start

(***************************************************************************)
(* Program constants                                                       *)
(***************************************************************************)
PLAN_FREE == 0
PLAN_PRO == 1
PLAN_ENTERPRISE == 2
Plans == {PLAN_FREE, PLAN_PRO, PLAN_ENTERPRISE}

STATUS_ACTIVE == 0
STATUS_GRACE_PERIOD == 1
STATUS_EXPIRED == 2
STATUS_CANCELLED == 3
Statuses == {STATUS_ACTIVE, STATUS_GRACE_PERIOD, STATUS_EXPIRED, STATUS_CANCELLED}

FEATURE_BASIC_REPORTS == 0
FEATURE_ADVANCED_REPORTS == 1
FEATURE_EXTENDED_DATE_RANGE == 2
FEATURE_CSV_EXPORT == 3
FEATURE_REPORT_GROUPING == 4
FEATURE_API_ACCESS == 5
FEATURE_PRIORITY_SUPPORT == 6
Features == FEATURE_BASIC_REPORTS..FEATURE_PRIORITY_SUPPORT

SESSION_DURATION_SECONDS == 86400 * 7
SESSION_INACTIVITY_SECONDS == 86400 * 1

NULL == -1           \* SQL NULL in a nullable INTEGER column (timestamps are >= 0)

\* rows of the accounts and users tables; both are fixed in this model.
\* is_active is the column session_validate's JOIN filters on (u.is_active = 1).
AccountIds == {1}
UserIds == {1, 2, 3}

\* crypt(password, salt): the hash names its salt and what was hashed; given
\* a hash as salt, crypt uses the salt of that hash
crypt(password, salt) == [salt |-> salt, of |-> password]

\* user 1 is the admin, user 3 has been deactivated
UserRow(u) ==
    [account_id |-> 1, role |-> IF u = 1 THEN "admin" ELSE "user",
     is_active |-> IF u = 3 THEN 0 ELSE 1,
     email |-> CASE u = 1 -> "admin@" [] u = 2 -> "user@" [] OTHER -> "idle@",
     password_hash |->
        CASE u = 1 -> crypt("pw1", "s1") [] u = 2 -> crypt("pw2", "s2")
          [] OTHER -> crypt("pw3", "s3")]

(***************************************************************************)
(* SQLite column readers                                                   *)
(***************************************************************************)
\* sqlite3_column_int64 reads NULL as 0
db_column_int64(v) == IF v = NULL THEN 0 ELSE v

(***************************************************************************)
(* subscription.c: enum <-> TEXT conversions                               *)
(***************************************************************************)
subscription_plan_to_string(plan) ==
    CASE plan = PLAN_FREE -> "free"
      [] plan = PLAN_PRO -> "pro"
      [] plan = PLAN_ENTERPRISE -> "enterprise"
      [] OTHER -> "unknown"

subscription_status_to_string(status) ==
    CASE status = STATUS_ACTIVE -> "active"
      [] status = STATUS_GRACE_PERIOD -> "grace_period"
      [] status = STATUS_EXPIRED -> "expired"
      [] status = STATUS_CANCELLED -> "cancelled"
      [] OTHER -> "unknown"

subscription_string_to_plan(str) ==
    CASE str = "free" -> PLAN_FREE
      [] str = "pro" -> PLAN_PRO
      [] str = "enterprise" -> PLAN_ENTERPRISE
      [] OTHER -> PLAN_FREE

subscription_string_to_status(str) ==
    CASE str = "active" -> STATUS_ACTIVE
      [] str = "grace_period" -> STATUS_GRACE_PERIOD
      [] str = "expired" -> STATUS_EXPIRED
      [] str = "cancelled" -> STATUS_CANCELLED
      [] OTHER -> STATUS_EXPIRED

\* values the CHECK constraints of the subscriptions table admit
PlanTexts == {"free", "pro", "enterprise"}
StatusTexts == {"active", "grace_period", "expired", "cancelled"}

(***************************************************************************)
(* subscription_get_by_account: "ok" loads the row into a subscription_t;  *)
(* a failed prepare or a step that yields no row returns -1.  A table is a *)
(* function from the keys that have a row to the rows.                     *)
(***************************************************************************)
GetFaults == {"ok", "prepare", "step"}

subscription_get_by_account(table, account_id, fault) ==
    IF fault = "prepare"
    THEN [rc |-> -1, logs |-> {<<"ERROR", "db">>, <<"ERROR", "subscription">>}]
    ELSE IF fault = "step" \/ account_id \notin DOMAIN table
    THEN [rc |-> -1, logs |-> {<<"WARN", "subscription">>}]
    ELSE [rc |-> 0, logs |-> {},
          sub |-> [account_id |-> account_id,
                   plan |-> subscription_string_to_plan(table[account_id].plan),
                   status |-> subscription_string_to_status(table[account_id].status),
                   valid_from |-> db_column_int64(table[account_id].valid_from),
                   valid_until |-> db_column_int64(table[account_id].valid_until),
                   grace_until |-> db_column_int64(table[account_id].grace_until)]]

(***************************************************************************)
(* subscription_is_valid at clock value t                                  *)
(***************************************************************************)
\* the grace test with a strict comparison
subscription_is_valid_StrictGrace(sub, t) ==
    IF sub.status = STATUS_CANCELLED \/ sub.status = STATUS_EXPIRED
    THEN IF sub.grace_until > 0 /\ t < sub.grace_until THEN 1 ELSE 0
    ELSE IF t < sub.valid_from \/ t > sub.valid_until THEN 0 ELSE 1

subscription_is_valid(sub, t) ==
    IF sub.status = STATUS_CANCELLED \/ sub.status = STATUS_EXPIRED
    THEN IF sub.grace_until > 0 /\ t <= sub.grace_until THEN 1 ELSE 0
    ELSE IF t < sub.valid_from \/ t > sub.valid_until THEN 0 ELSE 1

(***************************************************************************)
(* entitlement_has_feature                                                 *)
(***************************************************************************)
\* the pro branch returning 1 like the enterprise branch
PlanGrants_ProGetsAll(plan, feature) ==
    CASE plan = PLAN_FREE -> IF feature = FEATURE_BASIC_REPORTS THEN 1 ELSE 0
      [] plan = PLAN_PRO -> 1
      [] plan = PLAN_ENTERPRISE -> 1
      [] OTHER -> 0

PlanGrants(plan, feature) ==
    CASE plan = PLAN_FREE -> IF feature = FEATURE_BASIC_REPORTS THEN 1 ELSE 0
      [] plan = PLAN_PRO -> IF feature # FEATURE_PRIORITY_SUPPORT THEN 1 ELSE 0
      [] plan = PLAN_ENTERPRISE -> 1
      [] OTHER -> 0

entitlement_has_feature(table, account_id, feature, t, fault) ==
    LET got == subscription_get_by_account(table, account_id, fault) IN
    IF got.rc # 0
    THEN [ret |-> 0, logs |-> got.logs \cup {<<"WARN", "entitlement">>}]
    ELSE IF subscription_is_valid(got.sub, t) = 0
    THEN [ret |-> 0, logs |-> {<<"INFO", "entitlement">>}]
    ELSE [ret |-> PlanGrants(got.sub.plan, feature),
          logs |-> IF got.sub.plan \in Plans THEN {}
                   ELSE {<<"WARN", "entitlement">>}]

(***************************************************************************)
(* Values of the variables a specification does not use                    *)
(***************************************************************************)
NoReq == [is_authenticated |-> 0, user_id |-> 0, account_id |-> 0,
          user_role |-> ""]
NoResp == [status |-> 0, body |-> ""]
NoCall == [op |-> "none"]
NoRows == <<>>        \* a table without rows (a function with empty domain)

(***************************************************************************)
(* SpecEntitle: the entitlement engine over every stored subscription row  *)
(***************************************************************************)
StoredRows ==
    [plan : PlanTexts, status : StatusTexts,
     valid_from : {1, 2}, valid_until : {2, 3},
     grace_until : {NULL, 0, 3, MaxT},
     notes : {""}, created_at : {1}, updated_at : {1}]

InitEntitle ==
    /\ now \in 1..MaxT
    /\ subscriptions \in UNION {[S -> StoredRows] : S \in SUBSET AccountIds}
    /\ billing_events = <<>>
    /\ committed = [subscriptions |-> subscriptions, billing_events |-> <<>>]
    /\ in_txn = FALSE
    /\ sessions = NoRows
    /\ req = NoReq
    /\ resp = NoResp
    /\ logs = {}
    /\ ret = 0
    /\ call = NoCall
    /\ rate_limits = <<>>
    /\ pending = {}

\* a handler asks whether the account has the feature
EntitlementHasFeature(a, f, fault) ==
    LET r == entitlement_has_feature(subscriptions, a, f, now, fault) IN
    /\ ret' = r.ret
    /\ logs' = r.logs
    /\ call' = [op |-> "entitlement_has_feature", account_id |-> a,
                feature |-> f, fault |-> fault]
    /\ UNCHANGED <<now, subscriptions, billing_events, committed, in_txn,
                   sessions, req, resp>>
    /\ UNCHANGED <<rate_limits, pending>>

\* a caller that holds the loaded row asks whether it is valid
SubscriptionIsValid(a) ==
    LET got == subscription_get_by_account(subscriptions, a, "ok") IN
    /\ got.rc = 0
    /\ ret' = subscription_is_valid(got.sub, now)
    /\ logs' = {}
    /\ call' = [op |-> "subscription_is_valid", account_id |-> a,
                earlier |-> IF call.op = "tick" THEN call.last ELSE -1]
    /\ UNCHANGED <<now, subscriptions, billing_events, committed, in_txn,
                   sessions, req, resp>>
    /\ UNCHANGED <<rate_limits, pending>>

\* the clock advances; the record keeps the answer of a validity check that
\* only clock ticks separate from this state (-1: there is none)
TickEntitle ==
    /\ now < MaxT + 1
    /\ now' = now + 1
    /\ call' = [op |-> "tick",
                last |-> CASE call.op = "subscription_is_valid" -> ret
                           [] call.op = "tick" -> call.last
                           [] OTHER -> -1]
    /\ UNCHANGED <<subscriptions, billing_events, committed, in_txn,
                   sessions, req, resp, logs, ret>>
    /\ UNCHANGED <<rate_limits, pending>>

NextEntitle ==
    \/ \E a \in AccountIds, f \in Features, fault \in GetFaults :
          EntitlementHasFeature(a, f, fault)
    \/ \E a \in AccountIds : SubscriptionIsValid(a)
    \/ TickEntitle

SpecEntitle == InitEntitle /\ [][NextEntitle]_vars

(***************************************************************************)
(* Claims about the entitlement engine                                     *)
(***************************************************************************)
AskedFeature == call.op = "entitlement_has_feature"
HasRow(a) == a \in DOMAIN subscriptions
\* the row as subscription_get_by_account loads it
Loaded(a) == subscription_get_by_account(subscriptions, a, "ok").sub

\* C8: for an account with no subscription row, or whose subscription is not
\* currently valid, entitlement_has_feature answers true exactly for the
\* free-tier feature (basic reports) and false for every other feature.
C8_FailsClosedToFreeTier ==
    (AskedFeature /\ call.fault = "ok"
       /\ (~HasRow(call.account_id)
            \/ subscription_is_valid(Loaded(call.account_id), now) = 0))
    => (ret = 1 <=> call.feature = FEATURE_BASIC_REPORTS)

\* C9: for an account with a currently valid subscription, free grants
\* exactly basic reports, pro grants every feature except priority support,
\* enterprise grants every feature; every plan decides every feature.
C9_PlanFeatureMapping ==
    (AskedFeature /\ call.fault = "ok" /\ HasRow(call.account_id)
       /\ subscription_is_valid(Loaded(call.account_id), now) = 1)
    => /\ ret \in {0, 1}
       /\ subscriptions[call.account_id].plan = "free"
            => (ret = 1 <=> call.feature = FEATURE_BASIC_REPORTS)
       /\ subscriptions[call.account_id].plan = "pro"
            => (ret = 1 <=> call.feature # FEATURE_PRIORITY_SUPPORT)
       /\ subscriptions[call.account_id].plan = "enterprise"
            => ret = 1

\* C9 witness: a valid pro account was refused priority support
C9_Witness ==
    /\ AskedFeature /\ call.fault = "ok" /\ HasRow(call.account_id)
    /\ subscription_is_valid(Loaded(call.account_id), now) = 1
    /\ subscriptions[call.account_id].plan = "pro"
    /\ call.feature = FEATURE_PRIORITY_SUPPORT
    /\ ret = 0

\* isValid as the specification words it, over the stored row
StatedValid(row, t) ==
    \/ row.status = "active" /\ row.valid_from <= t /\ t <= row.valid_until
    \/ /\ row.status \in {"grace_period", "expired", "cancelled"}
       /\ row.grace_until # NULL /\ row.grace_until > 0
       /\ t <= row.grace_until

\* C10: subscription_is_valid is true exactly when (status = active and
\* valid_from <= now <= valid_until) or (status is grace_period, expired or
\* cancelled and grace_until is set and now <= grace_until).
C10_IsValidAsStated ==
    call.op = "subscription_is_valid"
    => (ret = 1 <=> StatedValid(subscriptions[call.account_id], now))

\* C11: grace ends by the clock alone: a validity check of a subscription
\* with status expired answers valid while grace_until >= now and invalid once
\* now is past grace_until, and neither the checks nor the clock ticks between
\* them change the stored subscription row or the ledger.
C11_GraceEndsByClock ==
    [][/\ call'.op \in {"subscription_is_valid", "tick"}
          => UNCHANGED <<subscriptions, billing_events, committed>>
       /\ (/\ call'.op = "subscription_is_valid"
           /\ subscriptions'[call'.account_id].status = "expired"
           /\ subscriptions'[call'.account_id].grace_until # NULL)
          => (ret' = 1 <=> subscriptions'[call'.account_id].grace_until >= now')
      ]_vars

\* C11 witness: an expired subscription was found valid at now <= grace_until
\* and, after nothing but clock ticks, invalid at now > grace_until
C11_Witness ==
    /\ call.op = "subscription_is_valid"
    /\ subscriptions[call.account_id].status = "expired"
    /\ subscriptions[call.account_id].grace_until > 0
    /\ now > subscriptions[call.account_id].grace_until
    /\ call.earlier = 1
    /\ ret = 0
    /\ billing_events = <<>>

(***************************************************************************)
(* session.c                                                               *)
(***************************************************************************)
GeneratedTokens == {"t1"}      \* values generate_random_hex returns
Tokens == {"t1", "t2"}         \* values a request's session cookie can carry
StmtFaults == {"ok", "prepare", "step"}

\* log lines of a failed db_prepare followed by the caller's own LOG_ERROR
PrepareFailed(module) == {<<"ERROR", "db">>, <<"ERROR", module>>}

\* session_validate: "Check if session expired"
SessionExpired(t, expires_at) == t > expires_at

\* the inactivity test against the session duration instead of the window
SessionInactive_WrongWindow(t, last_activity_at) ==
    t - last_activity_at > SESSION_DURATION_SECONDS

\* session_validate: "Check inactivity timeout"
SessionInactive(t, last_activity_at) ==
    t - last_activity_at > SESSION_INACTIVITY_SECONDS

\* session_update_activity(token) at clock value t
session_update_activity(table, token, t, fault) ==
    IF fault = "prepare"
    THEN [rc |-> -1, logs |-> PrepareFailed("session"), sessions |-> table]
    ELSE IF fault = "step"
    THEN [rc |-> -1, logs |-> {<<"ERROR", "session">>}, sessions |-> table]
    ELSE [rc |-> 0, logs |-> {},
          sessions |-> [k \in DOMAIN table |->
                          IF k = token
                          THEN [table[k] EXCEPT !.last_activity_at = t]
                          ELSE table[k]]]

\* the SELECT of session_validate yields a row: the token has a session and
\* the JOIN finds its user active
LookupFindsRow(table, token) ==
    /\ token \in DOMAIN table
    /\ table[token].user_id \in UserIds
    /\ UserRow(table[token].user_id).is_active = 1

\* session_validate(token, req) at clock value t, on a zeroed request
session_validate(table, token, t, lookup, update) ==
    IF lookup = "prepare"
    THEN [ret |-> 0, logs |-> PrepareFailed("session"), req |-> NoReq,
          sessions |-> table]
    ELSE IF lookup = "step" \/ ~LookupFindsRow(table, token)
    THEN [ret |-> 0, logs |-> {}, req |-> NoReq, sessions |-> table]
    ELSE IF SessionExpired(t, table[token].expires_at)
    THEN [ret |-> 0, logs |-> {<<"INFO", "session">>}, req |-> NoReq,
          sessions |-> table]
    ELSE IF SessionInactive(t, table[token].last_activity_at)
    THEN [ret |-> 0, logs |-> {<<"INFO", "session">>}, req |-> NoReq,
          sessions |-> table]
    ELSE LET upd == session_update_activity(table, token, t, update) IN
         [ret |-> 1,
          logs |-> upd.logs \cup {<<"DEBUG", "session">>},
          req |-> [is_authenticated |-> 1,
                   user_id |-> table[token].user_id,
                   account_id |-> UserRow(table[token].user_id).account_id,
                   user_role |-> UserRow(table[token].user_id).role],
          sessions |-> upd.sessions]

\* a sessions table whose token column accepts a value it already holds
TokenTaken_Never(table, token) == FALSE

\* sessions.token is UNIQUE: the INSERT of a token the table holds fails
TokenTaken(table, token) == token \in DOMAIN table

\* a create whose row is written although the step reports an error
session_create_RowThenFail(table, user_id, token, t, fault) ==
    IF fault = "prepare"
    THEN [rc |-> -1, logs |-> PrepareFailed("session"), sessions |-> table,
          token_out |-> "none"]
    ELSE IF token \in DOMAIN table \/ user_id \notin UserIds
    THEN [rc |-> -1, logs |-> {<<"ERROR", "session">>}, sessions |-> table,
          token_out |-> "none"]
    ELSE [rc |-> IF fault = "step" THEN -1 ELSE 0,
          logs |-> {<<"INFO", "session">>},
          token_out |-> IF fault = "step" THEN "none" ELSE token,
          sessions |-> [k \in DOMAIN table \cup {token} |->
                          IF k = token
                          THEN [user_id |-> user_id,
                                created_at |-> t,
                                expires_at |-> t + SESSION_DURATION_SECONDS,
                                last_activity_at |-> t]
                          ELSE table[k]]]

\* session_create(user_id, ...) at clock value t; token is what
\* generate_random_hex returned
session_create(table, user_id, token, t, fault) ==
    IF fault = "prepare"
    THEN [rc |-> -1, logs |-> PrepareFailed("session"), sessions |-> table,
          token_out |-> "none"]
    ELSE IF fault = "step" \/ TokenTaken(table, token) \/ user_id \notin UserIds
    THEN [rc |-> -1, logs |-> {<<"ERROR", "session">>}, sessions |-> table,
          token_out |-> "none"]
    ELSE [rc |-> 0, logs |-> {<<"INFO", "session">>}, token_out |-> token,
          sessions |-> [k \in DOMAIN table \cup {token} |->
                          IF k = token
                          THEN [user_id |-> user_id,
                                created_at |-> t,
                                expires_at |-> t + SESSION_DURATION_SECONDS,
                                last_activity_at |-> t]
                          ELSE table[k]]]

\* a delete that reports an error when no row carries the token
session_delete_MissingIsError(table, token, fault) ==
    IF fault = "prepare"
    THEN [rc |-> -1, logs |-> PrepareFailed("session"), sessions |-> table]
    ELSE IF fault = "step" \/ token \notin DOMAIN table
    THEN [rc |-> -1, logs |-> {<<"ERROR", "session">>}, sessions |-> table]
    ELSE [rc |-> 0, logs |-> {<<"INFO", "session">>},
          sessions |-> [k \in DOMAIN table \ {token} |-> table[k]]]

\* session_delete(token)
session_delete(table, token, fault) ==
    IF fault = "prepare"
    THEN [rc |-> -1, logs |-> PrepareFailed("session"), sessions |-> table]
    ELSE IF fault = "step"
    THEN [rc |-> -1, logs |-> {<<"ERROR", "session">>}, sessions |-> table]
    ELSE [rc |-> 0, logs |-> {<<"INFO", "session">>},
          sessions |-> [k \in DOMAIN table \ {token} |-> table[k]]]

\* rows the DELETE of session_cleanup_expired removes at clock value t
SweptTokens(table, t) ==
    {k \in DOMAIN table :
        \/ table[k].expires_at < t
        \/ table[k].last_activity_at < t - SESSION_INACTIVITY_SECONDS}

\* session_cleanup_expired() at clock value t
session_cleanup_expired(table, t, fault) ==
    IF fault = "prepare"
    THEN [rc |-> -1, logs |-> PrepareFailed("session"), sessions |-> table]
    ELSE IF fault = "step"
    THEN [rc |-> -1, logs |-> {<<"ERROR", "session">>}, sessions |-> table]
    ELSE [rc |-> Cardinality(SweptTokens(table, t)),
          logs |-> IF SweptTokens(table, t) # {} THEN {<<"INFO", "session">>}
                   ELSE {},
          sessions |-> [k \in DOMAIN table \ SweptTokens(table, t) |-> table[k]]]

(***************************************************************************)
(* SpecSession: the session table under create, validate, delete, sweep    *)
(* and the clock.  The clock visits the instants one second around every   *)
(* day boundary, so that a session meets both of its deadlines exactly.    *)
(***************************************************************************)
Day == 86400
Instants == {d * Day + e : d \in 1..MaxDays, e \in 0..1}

InitSession ==
    /\ now = Day
    /\ subscriptions = NoRows
    /\ billing_events = <<>>
    /\ committed = [subscriptions |-> NoRows, billing_events |-> <<>>]
    /\ in_txn = FALSE
    /\ sessions = NoRows
    /\ req = NoReq
    /\ resp = NoResp
    /\ logs = {}
    /\ ret = 0
    /\ call = NoCall
    /\ rate_limits = <<>>
    /\ pending = {}

\* login stores a session for the user
SessionCreate(u, token, fault) ==
    LET r == session_create(sessions, u, token, now, fault) IN
    /\ sessions' = r.sessions
    /\ ret' = r.rc
    /\ logs' = r.logs
    /\ call' = [op |-> "session_create", token |-> token, fault |-> fault]
    /\ UNCHANGED <<now, subscriptions, billing_events, committed, in_txn,
                   req, resp>>
    /\ UNCHANGED <<rate_limits, pending>>

\* a request carrying the cookie is identified (server_handle_client zeroes
\* the request before it calls session_validate)
SessionValidate(token, lookup, update) ==
    LET r == session_validate(sessions, token, now, lookup, update) IN
    /\ sessions' = r.sessions
    /\ req' = r.req
    /\ ret' = r.ret
    /\ logs' = r.logs
    /\ call' = [op |-> "session_validate", token |-> token,
                lookup |-> lookup,
                update |-> IF r.ret = 1 THEN update ELSE "not reached"]
    /\ UNCHANGED <<now, subscriptions, billing_events, committed, in_txn, resp>>
    /\ UNCHANGED <<rate_limits, pending>>

\* logout removes the session
SessionDelete(token, fault) ==
    LET r == session_delete(sessions, token, fault) IN
    /\ sessions' = r.sessions
    /\ ret' = r.rc
    /\ logs' = r.logs
    /\ call' = [op |-> "session_delete", token |-> token, fault |-> fault]
    /\ UNCHANGED <<now, subscriptions, billing_events, committed, in_txn,
                   req, resp>>
    /\ UNCHANGED <<rate_limits, pending>>

\* the sweep
SessionCleanupExpired(fault) ==
    LET r == session_cleanup_expired(sessions, now, fault) IN
    /\ sessions' = r.sessions
    /\ ret' = r.rc
    /\ logs' = r.logs
    /\ call' = [op |-> "session_cleanup_expired", fault |-> fault]
    /\ UNCHANGED <<now, subscriptions, billing_events, committed, in_txn,
                   req, resp>>
    /\ UNCHANGED <<rate_limits, pending>>

\* the clock advances to a later instant
TickSession ==
    /\ \E t \in Instants : t > now /\ now' = t
    /\ call' = [op |-> "tick"]
    /\ UNCHANGED <<subscriptions, billing_events, committed, in_txn,
                   sessions, req, resp, logs, ret>>
    /\ UNCHANGED <<rate_limits, pending>>

NextSession ==
    \/ \E u \in UserIds, token \in GeneratedTokens, fault \in StmtFaults :
          SessionCreate(u, token, fault)
    \/ \E token \in Tokens, lookup \in StmtFaults, update \in StmtFaults :
          SessionValidate(token, lookup, update)
    \/ \E token \in Tokens, fault \in StmtFaults : SessionDelete(token, fault)
    \/ \E fault \in StmtFaults : SessionCleanupExpired(fault)
    \/ TickSession

SpecSession == InitSession /\ [][NextSession]_vars

(***************************************************************************)
(* Claims about the session manager                                        *)
(***************************************************************************)
Validated == call.op = "session_validate"

\* C4: session_validate returns invalid for every session at every time
\* now >= expires_at, now = expires_at included, however recently
\* last_activity_at was refreshed.
C4_InvalidFromExpiry ==
    (Validated /\ call.token \in DOMAIN sessions
       /\ now >= sessions[call.token].expires_at)
    => ret = 0

C6_ValidateFrame ==
    [][/\ \A tok \in Tokens :
            (call'.op = "session_validate" /\ call'.token = tok)
            => /\ ret' = 1 =>
                    /\ tok \in DOMAIN sessions
                    /\ sessions' = [sessions EXCEPT
                                      ![tok].last_activity_at = now]
               /\ ret' # 1 => sessions' = sessions
               /\ (tok \in DOMAIN sessions
                   /\ now > sessions[tok].created_at + SESSION_DURATION_SECONDS)
                    => ret' = 0
       /\ \A tok \in DOMAIN sessions \cap DOMAIN sessions' :
            sessions'[tok].expires_at = sessions[tok].expires_at
      ]_vars

\* C7: if the store fails during the lookup of session_validate (prepare or
\* step), the call returns invalid, the request stays unauthenticated with
\* no user id, role or account, and the failure is logged.
C7_LookupFailureClosedAndLogged ==
    (Validated /\ call.lookup \in {"prepare", "step"})
    => /\ ret = 0
       /\ req.is_authenticated = 0 /\ req.user_id = 0
       /\ req.account_id = 0 /\ req.user_role = ""
       /\ logs # {}

(***************************************************************************)
(* db.c: transactions of the single connection g_db.  A store value is     *)
(* [subscriptions, billing_events, committed, in_txn].  Outside a          *)
(* transaction every statement commits by itself; inside one, writes stay  *)
(* in the connection's view until COMMIT.                                  *)
(***************************************************************************)
Store == [subscriptions |-> subscriptions, billing_events |-> billing_events,
          committed |-> committed, in_txn |-> in_txn]

\* BEGIN TRANSACTION; fails inside an open transaction or when SQLite
\* reports an error of its own
db_begin_transaction(st, fault) ==
    IF st.in_txn \/ fault # "ok"
    THEN [rc |-> "SQLITE_ERROR", st |-> st]
    ELSE [rc |-> "SQLITE_OK", st |-> [st EXCEPT !.in_txn = TRUE]]

\* COMMIT; SQLITE_BUSY leaves the transaction open, SQLITE_FULL (or an I/O
\* error) makes SQLite roll the transaction back by itself
db_commit_transaction(st, outcome) ==
    IF ~st.in_txn
    THEN [rc |-> "SQLITE_ERROR", st |-> st]
    ELSE IF outcome = "busy"
    THEN [rc |-> "SQLITE_BUSY", st |-> st]
    ELSE IF outcome = "full"
    THEN [rc |-> "SQLITE_FULL",
          st |-> [st EXCEPT !.subscriptions = st.committed.subscriptions,
                            !.billing_events = st.committed.billing_events,
                            !.in_txn = FALSE]]
    ELSE [rc |-> "SQLITE_OK",
          st |-> [st EXCEPT !.committed =
                               [subscriptions |-> st.subscriptions,
                                billing_events |-> st.billing_events],
                            !.in_txn = FALSE]]

\* ROLLBACK; an error and no effect when no transaction is open
db_rollback_transaction(st) ==
    IF ~st.in_txn
    THEN [rc |-> "SQLITE_ERROR", st |-> st]
    ELSE [rc |-> "SQLITE_OK",
          st |-> [st EXCEPT !.subscriptions = st.committed.subscriptions,
                            !.billing_events = st.committed.billing_events,
                            !.in_txn = FALSE]]

\* a successful INSERT or UPDATE statement leaves the tables as given
StepWrite(st, subs, events) ==
    IF st.in_txn
    THEN [st EXCEPT !.subscriptions = subs, !.billing_events = events]
    ELSE [st EXCEPT !.subscriptions = subs, !.billing_events = events,
                    !.committed = [subscriptions |-> subs,
                                   billing_events |-> events]]

(***************************************************************************)
(* subscription_update                                                     *)
(***************************************************************************)
CommitOutcomes == {"ok", "busy", "full"}
BeginFaults == {"ok", "fail"}

\* an INSERT that grants a week of grace after valid_until
InsertedRow_WithGrace(new_plan, new_status, valid_until, notes, t) ==
    [plan |-> subscription_plan_to_string(new_plan),
     status |-> subscription_status_to_string(new_status),
     valid_from |-> t,
     valid_until |-> valid_until,
     grace_until |-> valid_until + 7 * 86400,
     notes |-> notes,
     created_at |-> t,
     updated_at |-> t]

\* the row the INSERT of subscription_update writes: grace_until is the
\* literal 0 of the statement
InsertedRow(new_plan, new_status, valid_until, notes, t) ==
    [plan |-> subscription_plan_to_string(new_plan),
     status |-> subscription_status_to_string(new_status),
     valid_from |-> t,
     valid_until |-> valid_until,
     grace_until |-> 0,
     notes |-> notes,
     created_at |-> t,
     updated_at |-> t]

\* an UPDATE that leaves valid_until as it was
UpsertRows_KeepsValidUntil(subs, has_current, account_id, new_plan, new_status, valid_until, notes, t) ==
    IF has_current
    THEN [k \in DOMAIN subs |->
            IF k = account_id
            THEN [subs[k] EXCEPT
                    !.plan = subscription_plan_to_string(new_plan),
                    !.status = subscription_status_to_string(new_status),
                    !.notes = notes,
                    !.updated_at = t]
            ELSE subs[k]]
    ELSE [k \in DOMAIN subs \cup {account_id} |->
            IF k = account_id
            THEN [plan |-> subscription_plan_to_string(new_plan),
                  status |-> subscription_status_to_string(new_status),
                  valid_from |-> t,
                  valid_until |-> valid_until,
                  grace_until |-> 0,
                  notes |-> notes,
                  created_at |-> t,
                  updated_at |-> t]
            ELSE subs[k]]

\* the UPDATE or INSERT of subscription_update
UpsertRows(subs, has_current, account_id, new_plan, new_status, valid_until, notes, t) ==
    IF has_current
    THEN [k \in DOMAIN subs |->
            IF k = account_id
            THEN [subs[k] EXCEPT
                    !.plan = subscription_plan_to_string(new_plan),
                    !.status = subscription_status_to_string(new_status),
                    !.valid_until = valid_until,
                    !.notes = notes,
                    !.updated_at = t]
            ELSE subs[k]]
    ELSE [k \in DOMAIN subs \cup {account_id} |->
            IF k = account_id
            THEN InsertedRow(new_plan, new_status, valid_until, notes, t)
            ELSE subs[k]]

\* a table without the UNIQUE constraint on account_id
UpsertStepFails_NoUnique(subs, has_current, account_id, fault) ==
    \/ fault = "step"
    \/ ~has_current /\ account_id \notin AccountIds

\* the INSERT fails on the UNIQUE(account_id) and FOREIGN KEY constraints
UpsertStepFails(subs, has_current, account_id, fault) ==
    \/ fault = "step"
    \/ ~has_current /\ account_id \in DOMAIN subs
    \/ ~has_current /\ account_id \notin AccountIds

\* the billing_events row subscription_update inserts
UpdateEvent(has_current, current_sub, account_id, new_plan, new_status, admin_user_id, notes, t) ==
    [account_id |-> account_id,
     event_type |-> "subscription_update",
     previous_plan |-> IF has_current
                       THEN subscription_plan_to_string(current_sub.plan)
                       ELSE "none",
     new_plan |-> subscription_plan_to_string(new_plan),
     previous_status |-> IF has_current
                         THEN subscription_status_to_string(current_sub.status)
                         ELSE "none",
     new_status |-> subscription_status_to_string(new_status),
     amount_cents |-> NULL,
     admin_user_id |-> admin_user_id,
     notes |-> notes,
     occurred_at |-> t]

\* billing_events has FOREIGN KEYs to accounts(id) and users(id)
EventStepFails(account_id, admin_user_id, fault) ==
    \/ fault = "step"
    \/ account_id \notin AccountIds
    \/ admin_user_id \notin UserIds

\* F = [get, begin, upsert, event, commit] are the outcomes of the SQLite
\* calls subscription_update makes, in order
subscription_update(st, t, account_id, new_plan, new_status, valid_until, admin_user_id, notes, F) ==
    LET got == subscription_get_by_account(st.subscriptions, account_id, F.get)
        has_current == got.rc = 0
        current_sub == IF has_current THEN got.sub ELSE [plan |-> -1, status |-> -1]
        st1 == db_begin_transaction(st, F.begin).st
        rolled == db_rollback_transaction(st1).st
        st2 == StepWrite(st1,
                         UpsertRows(st1.subscriptions, has_current, account_id,
                                    new_plan, new_status, valid_until, notes, t),
                         st1.billing_events)
        st3 == StepWrite(st2, st2.subscriptions,
                         Append(st2.billing_events,
                                UpdateEvent(has_current, current_sub, account_id,
                                            new_plan, new_status, admin_user_id,
                                            notes, t)))
        done == db_commit_transaction(st3, F.commit)
    IN
    IF F.upsert = "prepare"
    THEN [rc |-> -1, st |-> rolled, reached |-> "upsert",
          logs |-> got.logs \cup PrepareFailed("subscription")]
    ELSE IF UpsertStepFails(st1.subscriptions, has_current, account_id, F.upsert)
    THEN [rc |-> -1, st |-> rolled, reached |-> "upsert",
          logs |-> got.logs \cup {<<"ERROR", "subscription">>}]
    ELSE IF F.event = "prepare"
    THEN [rc |-> -1, st |-> db_rollback_transaction(st2).st, reached |-> "event",
          logs |-> got.logs \cup PrepareFailed("subscription")]
    ELSE IF EventStepFails(account_id, admin_user_id, F.event)
    THEN [rc |-> -1, st |-> db_rollback_transaction(st2).st, reached |-> "event",
          logs |-> got.logs \cup {<<"ERROR", "subscription">>}]
    ELSE [rc |-> 0, st |-> done.st, reached |-> "commit",
          logs |-> got.logs \cup {<<"INFO", "subscription">>}]

\* subscription_create(account_id, plan)
subscription_create(st, t, account_id, plan, F) ==
    subscription_update(st, t, account_id, plan, STATUS_ACTIVE,
                        t + 365 * 24 * 60 * 60, 0, "Initial subscription", F)

(***************************************************************************)
(* admin.c                                                                 *)
(***************************************************************************)
\* billing_log_event that leaves the amount column NULL
billing_log_event_NoAmount(st, t, account_id, event_type, new_plan, new_status, amount_cents, admin_user_id, notes, fault) ==
    IF fault = "prepare"
    THEN [rc |-> -1, st |-> st, logs |-> PrepareFailed("billing")]
    ELSE IF EventStepFails(account_id, admin_user_id, fault)
    THEN [rc |-> -1, st |-> st, logs |-> {<<"ERROR", "billing">>}]
    ELSE [rc |-> 0, logs |-> {<<"INFO", "billing">>},
          st |-> StepWrite(st, st.subscriptions,
                           Append(st.billing_events,
                                  [account_id |-> account_id,
                                   event_type |-> event_type,
                                   previous_plan |-> "",
                                   new_plan |-> new_plan,
                                   previous_status |-> "",
                                   new_status |-> new_status,
                                   amount_cents |-> NULL,
                                   admin_user_id |-> admin_user_id,
                                   notes |-> notes,
                                   occurred_at |-> t]))]

\* billing_log_event(...): one INSERT outside any transaction of its own
billing_log_event(st, t, account_id, event_type, new_plan, new_status, amount_cents, admin_user_id, notes, fault) ==
    IF fault = "prepare"
    THEN [rc |-> -1, st |-> st, logs |-> PrepareFailed("billing")]
    ELSE IF EventStepFails(account_id, admin_user_id, fault)
    THEN [rc |-> -1, st |-> st, logs |-> {<<"ERROR", "billing">>}]
    ELSE [rc |-> 0, logs |-> {<<"INFO", "billing">>},
          st |-> StepWrite(st, st.subscriptions,
                           Append(st.billing_events,
                                  [account_id |-> account_id,
                                   event_type |-> event_type,
                                   previous_plan |-> "",
                                   new_plan |-> new_plan,
                                   previous_status |-> "",
                                   new_status |-> new_status,
                                   amount_cents |-> amount_cents,
                                   admin_user_id |-> admin_user_id,
                                   notes |-> notes,
                                   occurred_at |-> t]))]

\* int is 32 bits wide, two's complement
INT_MAX == 2147483647

\* duration_days * 24 * 60 * 60 is a product of int: it leaves the range of
\* int, and the behaviour is undefined, when duration_days is beyond
\* INT_MAX / 86400 in either direction
ProductOverflows(duration_days) ==
    \/ duration_days > INT_MAX \div (24 * 60 * 60)
    \/ duration_days < -(INT_MAX \div (24 * 60 * 60))

\* the int that the 32-bit multiplication leaves for
\* duration_days * 24 * 60 * 60: the low 32 bits of the product, read as a
\* signed number.  86400 = 675 * 128 and 2^32 = 2^25 * 128, so the value is
\* computed in units of 128 seconds, which keeps every intermediate number
\* of the model within 32 bits as well.
DurationSeconds(duration_days) ==
    IF (duration_days * 675) % 33554432 >= 16777216
    THEN (((duration_days * 675) % 33554432) - 33554432) * 128
    ELSE ((duration_days * 675) % 33554432) * 128

\* billing_mark_as_paid(...); F as for subscription_update, log_fault the
\* outcome of the INSERT of billing_log_event.  valid_until is a time_t (64
\* bits): the sum does not wrap, the product before it does.
billing_mark_as_paid(st, t, account_id, plan, duration_days, amount_cents, admin_user_id, notes, F, log_fault) ==
    LET valid_until == t + DurationSeconds(duration_days)
        upd == subscription_update(st, t, account_id, plan, STATUS_ACTIVE,
                                   valid_until, admin_user_id, notes, F)
        ev == billing_log_event(upd.st, t, account_id, "payment_received",
                                subscription_plan_to_string(plan),
                                subscription_status_to_string(STATUS_ACTIVE),
                                amount_cents, admin_user_id, notes, log_fault)
    IN
    IF upd.rc # 0
    THEN [rc |-> -1, st |-> upd.st, reached |-> upd.reached,
          logs |-> upd.logs \cup {<<"ERROR", "billing">>}]
    ELSE [rc |-> 0, st |-> ev.st, reached |-> "log",
          logs |-> upd.logs \cup ev.logs \cup {<<"INFO", "billing">>}]

\* handle_admin_mark_paid(req): present says whether the form carries
\* account_id, plan, duration and amount
handle_admin_mark_paid(st, t, request, present, account_id, plan_str, duration, amount_cents, notes, F, log_fault) ==
    LET paid == billing_mark_as_paid(st, t, account_id,
                                     subscription_string_to_plan(plan_str),
                                     duration, amount_cents, request.user_id,
                                     notes, F, log_fault)
    IN
    IF ~present
    THEN [resp |-> [status |-> 400, body |-> "Bad Request"],
          st |-> st, logs |-> {}, rc |-> 0, reached |-> "none"]
    ELSE IF paid.rc # 0
    THEN [resp |-> [status |-> 500, body |-> "Error"],
          st |-> paid.st, logs |-> paid.logs, rc |-> paid.rc,
          reached |-> paid.reached]
    ELSE [resp |-> [status |-> 200, body |-> "Payment Processed"],
          st |-> paid.st, logs |-> paid.logs, rc |-> paid.rc,
          reached |-> paid.reached]

(***************************************************************************)
(* SpecBilling: the subscription table and the ledger under                *)
(* subscription_update, subscription_create and the mark-paid handler      *)
(***************************************************************************)
AccountInputs == {1, 2}          \* 2 has no row in accounts

\* outcomes of the SQLite calls of one operation, in call order; log is the
\* INSERT of billing_log_event.  A plan injects at most one failure that the
\* state of the store does not explain (constraint violations and a BEGIN
\* inside an open transaction fail by themselves), or a failed BEGIN
\* followed by a failed ledger INSERT: the operation goes on after a failed
\* BEGIN.
NoFault == [get |-> "ok", begin |-> "ok", upsert |-> "ok", event |-> "ok",
            commit |-> "ok", log |-> "ok"]
FaultPlans ==
    {NoFault}
    \cup {[NoFault EXCEPT !.get = v] : v \in GetFaults}
    \cup {[NoFault EXCEPT !.begin = v] : v \in BeginFaults}
    \cup {[NoFault EXCEPT !.upsert = v] : v \in StmtFaults}
    \cup {[NoFault EXCEPT !.event = v] : v \in StmtFaults}
    \cup {[NoFault EXCEPT !.commit = v] : v \in CommitOutcomes}
    \cup {[NoFault EXCEPT !.log = v] : v \in StmtFaults}
    \cup {[NoFault EXCEPT !.begin = "fail", !.event = v] : v \in StmtFaults}
UpdateFaults == {F \in FaultPlans : F.log = "ok"}

\* (plan, status) pairs passed to subscription_update
UpdateInputs ==
    {<<PLAN_PRO, STATUS_EXPIRED>>, <<PLAN_ENTERPRISE, STATUS_CANCELLED>>}

\* the outcomes of the SQLite calls the operation did make
Consumed(F, reached) ==
    [F EXCEPT !.event = IF reached = "upsert" THEN "not reached" ELSE @,
              !.commit = IF reached \in {"upsert", "event"}
                         THEN "not reached" ELSE @,
              !.log = IF reached = "log" THEN @ ELSE "not reached"]

\* the example subscription of schema.sql: free, active, no grace
SeedRow(t) ==
    [plan |-> "free", status |-> "active", valid_from |-> t,
     valid_until |-> t + 365 * Day, grace_until |-> NULL,
     notes |-> "", created_at |-> t, updated_at |-> t]

AdminReq == [is_authenticated |-> 1, user_id |-> 1, account_id |-> 1,
             user_role |-> "admin"]

InitBilling ==
    /\ now = Day
    /\ subscriptions \in {NoRows, [a \in {1} |-> SeedRow(now)]}
    /\ billing_events = <<>>
    /\ committed = [subscriptions |-> subscriptions, billing_events |-> <<>>]
    /\ in_txn = FALSE
    /\ sessions = NoRows
    /\ req = AdminReq
    /\ resp = NoResp
    /\ logs = {}
    /\ ret = 0
    /\ call = NoCall
    /\ rate_limits = <<>>
    /\ pending = {}

SetStore(st) ==
    /\ subscriptions' = st.subscriptions
    /\ billing_events' = st.billing_events
    /\ committed' = st.committed
    /\ in_txn' = st.in_txn

\* the single mutation entry point, called directly
SubscriptionUpdate(a, plan, status, valid_until, admin, notes, F) ==
    LET r == subscription_update(Store, now, a, plan, status, valid_until,
                                 admin, notes, F) IN
    /\ Len(billing_events) < MaxEvents
    /\ SetStore(r.st)
    /\ ret' = r.rc
    /\ logs' = r.logs
    /\ call' = [op |-> "subscription_update", account_id |-> a,
                new_plan |-> plan, new_status |-> status,
                valid_until |-> valid_until, F |-> Consumed(F, r.reached)]
    /\ UNCHANGED <<now, sessions, req, resp>>
    /\ UNCHANGED <<rate_limits, pending>>

\* provisioning of an account
SubscriptionCreate(a, plan, F) ==
    LET r == subscription_create(Store, now, a, plan, F) IN
    /\ Len(billing_events) < MaxEvents
    /\ SetStore(r.st)
    /\ ret' = r.rc
    /\ logs' = r.logs
    /\ call' = [op |-> "subscription_create", account_id |-> a,
                new_plan |-> plan, F |-> Consumed(F, r.reached)]
    /\ UNCHANGED <<now, sessions, req, resp>>
    /\ UNCHANGED <<rate_limits, pending>>

\* POST /admin/billing/mark-paid by the admin
HandleAdminMarkPaid(present, a, plan_str, duration, amount_cents, notes, F) ==
    LET r == handle_admin_mark_paid(Store, now, req, present, a, plan_str,
                                    duration, amount_cents, notes, F, F.log)
    IN
    /\ Len(billing_events) + 1 < MaxEvents
    /\ SetStore(r.st)
    /\ resp' = r.resp
    /\ ret' = r.rc
    /\ logs' = r.logs
    /\ call' = [op |-> "handle_admin_mark_paid", account_id |-> a,
                present |-> present, plan |-> plan_str,
                duration |-> duration, amount_cents |-> amount_cents,
                F |-> Consumed(F, r.reached)]
    /\ UNCHANGED <<now, sessions, req>>
    /\ UNCHANGED <<rate_limits, pending>>

NextBilling ==
    \/ \E in \in UpdateInputs, F \in UpdateFaults :
          SubscriptionUpdate(1, in[1], in[2], now + 30 * Day, 1, "memo", F)
    \/ \E F \in UpdateFaults : SubscriptionCreate(1, PLAN_FREE, F)
    \/ \E a \in AccountInputs, plan_str \in {"pro", "bogus"}, F \in FaultPlans :
          HandleAdminMarkPaid(TRUE, a, plan_str, 30, 4900, "paid", F)
    \/ HandleAdminMarkPaid(FALSE, 1, "pro", 30, 4900, "paid", NoFault)

SpecBilling == InitBilling /\ [][NextBilling]_vars

(***************************************************************************)
(* Claims about subscription_update and the ledger                         *)
(***************************************************************************)
\* the account's row differs between two values of the table
RowDiffers(before, after, a) ==
    \/ (a \in DOMAIN before) # (a \in DOMAIN after)
    \/ a \in DOMAIN before /\ a \in DOMAIN after /\ before[a] # after[a]

\* the ledger grew by exactly one subscription_update row of the account
AppendedUpdateEvent(before, after, a) ==
    /\ Len(after) = Len(before) + 1
    /\ SubSeq(after, 1, Len(before)) = before
    /\ after[Len(after)].account_id = a
    /\ after[Len(after)].event_type = "subscription_update"

\* C1: subscription_update is all-or-nothing: when the call has returned,
\* the account's subscription row was changed by the call if and only if
\* the call's billing_events row was appended; a failed upsert or insert
\* leaves both tables as they were.
C1_UpdateAllOrNothing ==
    [][call'.op = "subscription_update"
       => \/ /\ ~RowDiffers(subscriptions, subscriptions', call'.account_id)
             /\ billing_events' = billing_events
          \/ /\ AppendedUpdateEvent(billing_events, billing_events',
                                    call'.account_id)
             /\ call'.account_id \in DOMAIN subscriptions'
             /\ subscriptions'[call'.account_id].plan
                  = subscription_plan_to_string(call'.new_plan)
             /\ subscriptions'[call'.account_id].status
                  = subscription_status_to_string(call'.new_status)
             /\ subscriptions'[call'.account_id].valid_until
                  = call'.valid_until]_vars

\* C2: every subscription_update call that returns success appends exactly
\* one billing_events row for the account, and that row's new_plan and
\* new_status equal the plan and status of the account's subscription row
\* immediately after the call.
C2_SuccessAppendsMatchingEvent ==
    [][(call'.op = "subscription_update" /\ ret' = 0)
       => /\ AppendedUpdateEvent(billing_events, billing_events',
                                 call'.account_id)
          /\ call'.account_id \in DOMAIN subscriptions'
          /\ billing_events'[Len(billing_events')].new_plan
               = subscriptions'[call'.account_id].plan
          /\ billing_events'[Len(billing_events')].new_status
               = subscriptions'[call'.account_id].status]_vars

\* a statement of the call failed, or its BEGIN or COMMIT failed
NotCommitted(c) ==
    \/ c.F.begin = "fail"
    \/ c.F.upsert \in {"prepare", "step"}
    \/ c.F.event \in {"prepare", "step"}
    \/ c.F.commit \in {"busy", "full"}

\* C3: whenever subscription_update does not durably commit its change (a
\* statement fails, or BEGIN or COMMIT itself fails), it returns a failure
\* code with the prior subscription row intact, and handle_admin_mark_paid
\* answers with an error response, never the 'Payment Processed' page.
C3_FailureSurfaced ==
    [][/\ (call'.op = "subscription_update" /\ NotCommitted(call'))
            => /\ ret' # 0
               /\ ~RowDiffers(subscriptions, subscriptions', call'.account_id)
       /\ (call'.op = "handle_admin_mark_paid" /\ call'.present
             /\ NotCommitted(call'))
            => /\ resp'.status >= 400
               /\ resp'.body # "Payment Processed"
               /\ ~RowDiffers(subscriptions, subscriptions', call'.account_id)
      ]_vars

(***************************************************************************)
(* ratelimit.c: the check counts the caller's rows of the last window and  *)
(* records the request.  The table is modelled with the columns the code's *)
(* statements name (identifier, timestamp); no statement reads any other   *)
(* column, so the table is the number of rows of every (identifier,        *)
(* timestamp) pair that has rows.                                          *)
(***************************************************************************)
MAX_REQUESTS_PER_MINUTE == 60
RATE_LIMIT_WINDOW == 60

RateFaults == {"ok", "count_prepare", "count_step", "insert_prepare", "insert_step"}

\* number of rows of the table under the keys of K
RECURSIVE RowCount(_, _)
RowCount(table, K) ==
    IF K = {} THEN 0
    ELSE LET k == CHOOSE x \in K : TRUE IN table[k] + RowCount(table, K \ {k})

\* SELECT COUNT(*) FROM rate_limits WHERE identifier = ? AND timestamp > ?
RequestCount(table, identifier, window_start) ==
    RowCount(table, {k \in DOMAIN table :
                        k[1] = identifier /\ k[2] > window_start})

\* INSERT INTO rate_limits (identifier, timestamp) VALUES (?, ?)
InsertRate(table, identifier, t) ==
    [k \in DOMAIN table \cup {<<identifier, t>>} |->
        IF k \in DOMAIN table
        THEN (IF k = <<identifier, t>> THEN table[k] + 1 ELSE table[k])
        ELSE 1]

\* a check that rejects only when the count is above the limit
ratelimit_check_ip_OffByOne(table, ip_address, t, fault) ==
    IF fault = "count_prepare"
    THEN [result |-> "RATELIMIT_ERROR", rate_limits |-> table,
          logs |-> PrepareFailed("ratelimit")]
    ELSE IF fault = "count_step"
    THEN [result |-> "RATELIMIT_ERROR", rate_limits |-> table,
          logs |-> {<<"ERROR", "ratelimit">>}]
    ELSE IF RequestCount(table, ip_address, t - RATE_LIMIT_WINDOW)
              > MAX_REQUESTS_PER_MINUTE
    THEN [result |-> "RATELIMIT_EXCEEDED", rate_limits |-> table,
          logs |-> {<<"WARN", "ratelimit">>}]
    ELSE IF fault = "insert_prepare"
    THEN [result |-> "RATELIMIT_ERROR", rate_limits |-> table,
          logs |-> PrepareFailed("ratelimit")]
    ELSE IF fault = "insert_step"
    THEN [result |-> "RATELIMIT_ERROR", rate_limits |-> table,
          logs |-> {<<"ERROR", "ratelimit">>}]
    ELSE [result |-> "RATELIMIT_OK",
          rate_limits |-> InsertRate(table, ip_address, t),
          logs |-> {}]

\* ratelimit_check_ip(ip_address) at clock value t
ratelimit_check_ip(table, ip_address, t, fault) ==
    IF fault = "count_prepare"
    THEN [result |-> "RATELIMIT_ERROR", rate_limits |-> table,
          logs |-> PrepareFailed("ratelimit")]
    ELSE IF fault = "count_step"
    THEN [result |-> "RATELIMIT_ERROR", rate_limits |-> table,
          logs |-> {<<"ERROR", "ratelimit">>}]
    ELSE IF RequestCount(table, ip_address, t - RATE_LIMIT_WINDOW)
              >= MAX_REQUESTS_PER_MINUTE
    THEN [result |-> "RATELIMIT_EXCEEDED", rate_limits |-> table,
          logs |-> {<<"WARN", "ratelimit">>}]
    ELSE IF fault = "insert_prepare"
    THEN [result |-> "RATELIMIT_ERROR", rate_limits |-> table,
          logs |-> PrepareFailed("ratelimit")]
    ELSE IF fault = "insert_step"
    THEN [result |-> "RATELIMIT_ERROR", rate_limits |-> table,
          logs |-> {<<"ERROR", "ratelimit">>}]
    ELSE [result |-> "RATELIMIT_OK",
          rate_limits |-> InsertRate(table, ip_address, t),
          logs |-> {}]

(***************************************************************************)
(* response.c                                                              *)
(***************************************************************************)
\* response_new, response_set_status, response_set_body
Response(status, body) == [status |-> status, body |-> body]

\* response_redirect(resp, url, 0)
response_redirect(url) == [status |-> 302, body |-> "", location |-> url]

\* response_set_cookie(resp, name, value, max_age, 1, 0, "Strict"): the
\* Set-Cookie header added to a response that has a Location header.
\* max_age 0 stands for a header without a Max-Age attribute, which is what
\* the function writes for every max_age that is not positive.
response_set_cookie(response, name, value, max_age) ==
    [status |-> response.status, body |-> response.body,
     location |-> response.location,
     set_cookie |-> [name |-> name, value |-> value,
                     max_age |-> IF max_age > 0 THEN max_age ELSE 0]]

\* response_delete_cookie(resp, name)
response_delete_cookie(response, name) ==
    response_set_cookie(response, name, "", -1)

\* send_error_response(client_socket, status_code, message)
send_error_response(status_code, message) == Response(status_code, message)

(***************************************************************************)
(* entitlement.c and reports.c                                             *)
(***************************************************************************)
entitlement_get_max_report_days(table, account_id, t, fault) ==
    LET got == subscription_get_by_account(table, account_id, fault) IN
    IF got.rc # 0 THEN 7
    ELSE IF subscription_is_valid(got.sub, t) = 0 THEN 7
    ELSE CASE got.sub.plan = PLAN_FREE -> 7
           [] got.sub.plan = PLAN_PRO -> 90
           [] got.sub.plan = PLAN_ENTERPRISE -> 365
           [] OTHER -> 7

entitlement_can_export_csv(table, account_id, t, fault) ==
    entitlement_has_feature(table, account_id, FEATURE_CSV_EXPORT, t, fault).ret

entitlement_can_use_grouping(table, account_id, t, fault) ==
    entitlement_has_feature(table, account_id, FEATURE_REPORT_GROUPING, t, fault).ret

\* a validation that does not ask for the grouping entitlement
report_validate_params_NoGrouping(table, account_id, t, days, export_csv, grouping, fault) ==
    IF days > entitlement_get_max_report_days(table, account_id, t, fault)
    THEN [rc |-> -1, calls |-> <<"entitlement_get_max_report_days">>]
    ELSE IF export_csv /\ entitlement_can_export_csv(table, account_id, t, fault) = 0
    THEN [rc |-> -1, calls |-> <<"entitlement_get_max_report_days",
                                 "entitlement_can_export_csv">>]
    ELSE [rc |-> 0,
          calls |-> <<"entitlement_get_max_report_days">>
                    \o (IF export_csv THEN <<"entitlement_can_export_csv">>
                        ELSE <<>>)]

\* report_validate_params: days is the length of the requested range
report_validate_params(table, account_id, t, days, export_csv, grouping, fault) ==
    IF days > entitlement_get_max_report_days(table, account_id, t, fault)
    THEN [rc |-> -1, calls |-> <<"entitlement_get_max_report_days">>]
    ELSE IF export_csv /\ entitlement_can_export_csv(table, account_id, t, fault) = 0
    THEN [rc |-> -1, calls |-> <<"entitlement_get_max_report_days",
                                 "entitlement_can_export_csv">>]
    ELSE IF grouping /\ entitlement_can_use_grouping(table, account_id, t, fault) = 0
    THEN [rc |-> -1,
          calls |-> <<"entitlement_get_max_report_days">>
                    \o (IF export_csv THEN <<"entitlement_can_export_csv">>
                        ELSE <<>>)
                    \o <<"entitlement_can_use_grouping">>]
    ELSE [rc |-> 0,
          calls |-> <<"entitlement_get_max_report_days">>
                    \o (IF export_csv THEN <<"entitlement_can_export_csv">>
                        ELSE <<>>)
                    \o (IF grouping THEN <<"entitlement_can_use_grouping">>
                        ELSE <<>>)]

\* report_generate fails on an empty or negative range
report_generate(days) == IF days <= 0 THEN -1 ELSE 0

(***************************************************************************)
(* Request bodies.  A form is named by what it carries; a handler finds    *)
(* the fields of its own form and no others (request_get_post_param        *)
(* returns NULL for a field the body does not carry).                      *)
(***************************************************************************)
LoginForms ==
    {"login_admin", "login_user", "login_wrong", "login_unknown",
     "login_inactive"}
ReportForms == {"report_1", "report_8", "report_csv"}

\* report forms at the limits of the plans, with a grouping, and with a date
\* that does not parse
RangeForms ==
    {"report_7", "report_90", "report_91", "report_365", "report_366",
     "report_group", "report_bad_start", "report_bad_end"}
Forms == {"none", "paid"} \cup LoginForms \cup ReportForms \cup RangeForms

\* the email and password fields of a login form: two users with their own
\* passwords, a known and an unknown email with the same wrong password, and
\* the deactivated user with their own password
LoginFields(form) ==
    CASE form = "login_admin" -> [email |-> "admin@", password |-> "pw1"]
      [] form = "login_user" -> [email |-> "user@", password |-> "pw2"]
      [] form = "login_wrong" -> [email |-> "user@", password |-> "bad"]
      [] form = "login_unknown" -> [email |-> "nobody@", password |-> "bad"]
      [] OTHER -> [email |-> "idle@", password |-> "pw3"]

\* auth_verify_password(password, hash)
auth_verify_password(password, hash) ==
    IF crypt(password, hash.salt) = hash THEN 1 ELSE 0

\* auth_authenticate_user(email, password): the user's id; -1 on an unknown
\* email, a deactivated user or a wrong password
auth_authenticate_user(form) ==
    LET found == {u \in UserIds : UserRow(u).email = LoginFields(form).email}
        u == CHOOSE x \in found : TRUE
    IN
    IF found = {} THEN -1
    ELSE IF UserRow(u).is_active = 0 THEN -1
    ELSE IF auth_verify_password(LoginFields(form).password,
                                 UserRow(u).password_hash) = 0 THEN -1
    ELSE u

\* a date field of a form: YYYY-MM-DD of the day-th day after 2024-01-01, or
\* text that is no date
Date(day) == [ok |-> TRUE, day |-> day]
NoDate == [ok |-> FALSE, day |-> 0]

\* the start_date, end_date, export_csv and grouping fields of a report form
ReportFields(form) ==
    [start_date |-> IF form = "report_bad_start" THEN NoDate ELSE Date(0),
     end_date |-> CASE form = "report_8" -> Date(8)
                    [] form = "report_7" -> Date(7)
                    [] form = "report_90" -> Date(90)
                    [] form = "report_91" -> Date(91)
                    [] form = "report_365" -> Date(365)
                    [] form = "report_366" -> Date(366)
                    [] form = "report_bad_end" -> NoDate
                    [] OTHER -> Date(1),
     export_csv |-> IF form = "report_csv" THEN "1" ELSE "none",
     grouping |-> IF form = "report_group" THEN "week" ELSE "none"]

\* parse_iso8601(date_str): timegm of the date, 0 on a parse error;
\* 2024-01-01T00:00:00Z is 1704067200
parse_iso8601(date) ==
    IF date.ok THEN 1704067200 + date.day * (24 * 60 * 60) ELSE 0

\* (int)(diff / (24 * 60 * 60)): the division of C truncates toward zero
RangeDays(start_date, end_date) ==
    IF end_date - start_date >= 0
    THEN (end_date - start_date) \div (24 * 60 * 60)
    ELSE -((start_date - end_date) \div (24 * 60 * 60))

\* report_params_t of a report form: the range in days between the parsed
\* dates, export_csv, grouping (other than GROUP_NONE)
ReportParams(form) ==
    [days |-> RangeDays(parse_iso8601(ReportFields(form).start_date),
                        parse_iso8601(ReportFields(form).end_date)),
     export_csv |-> ReportFields(form).export_csv = "1",
     grouping |-> ReportFields(form).grouping \in {"day", "week", "month"}]

(***************************************************************************)
(* Route handlers.  A handler reads the request context r and the tables   *)
(* w = [sessions, st]; it returns its response, the tables as it leaves    *)
(* them and the calls into the engine it made.  FS holds the outcomes of   *)
(* the SQLite calls of one request.                                        *)
(***************************************************************************)
\* the element of a singleton: Only({f(x) : x \in {e}}) is f(e) with e
\* computed once
Only(S) == CHOOSE x \in S : TRUE

HandlerResult(response, w, calls) ==
    [resp |-> response, w |-> w, calls |-> calls]

handle_home_page(r, w, t, FS) == HandlerResult(Response(200, "Home"), w, <<>>)

handle_login_page(r, w, t, FS) ==
    IF r.is_authenticated = 1
    THEN HandlerResult(response_redirect("/dashboard"), w, <<>>)
    ELSE HandlerResult(Response(200, "Login"), w, <<>>)

\* a login that tells the client when the email has no user
handle_login_submit_NamesUnknown(r, w, t, FS) ==
    LET user_id == auth_authenticate_user(r.form)
        made == session_create(w.sessions, user_id,
                               CHOOSE k \in GeneratedTokens : TRUE, t, FS.create)
    IN
    IF r.form \notin LoginForms
    THEN HandlerResult(Response(400, "Bad Request"), w, <<>>)
    ELSE IF r.form = "login_unknown"
    THEN HandlerResult(Response(404, "No Such User"), w,
                       <<"auth_authenticate_user">>)
    ELSE IF user_id < 0
    THEN HandlerResult(Response(200, "Login Failed"), w,
                       <<"auth_authenticate_user">>)
    ELSE IF made.rc # 0
    THEN HandlerResult(Response(500, "Error"), w,
                       <<"auth_authenticate_user", "session_create">>)
    ELSE HandlerResult(response_set_cookie(response_redirect("/dashboard"),
                                           "session_token", made.token_out,
                                           86400 * 7),
                       [w EXCEPT !.sessions = made.sessions],
                       <<"auth_authenticate_user", "session_create">>)

\* the users table is fixed in this model: the last_login_at column that
\* auth_update_last_login writes is not part of it
handle_login_submit(r, w, t, FS) ==
    LET user_id == auth_authenticate_user(r.form)
        made == session_create(w.sessions, user_id,
                               CHOOSE k \in GeneratedTokens : TRUE, t, FS.create)
    IN
    IF r.form \notin LoginForms
    THEN HandlerResult(Response(400, "Bad Request"), w, <<>>)
    ELSE IF user_id < 0
    THEN HandlerResult(Response(200, "Login Failed"), w,
                       <<"auth_authenticate_user">>)
    ELSE IF made.rc # 0
    THEN HandlerResult(Response(500, "Error"), w,
                       <<"auth_authenticate_user", "session_create">>)
    ELSE HandlerResult(response_set_cookie(response_redirect("/dashboard"),
                                           "session_token", made.token_out,
                                           86400 * 7),
                       [w EXCEPT !.sessions = made.sessions],
                       <<"auth_authenticate_user", "session_create">>)

\* logout reads the cookie named session_token
handle_logout(r, w, t, FS) ==
    IF r.session_token # "none"
    THEN HandlerResult(response_delete_cookie(response_redirect("/"),
                                              "session_token"),
                       [w EXCEPT !.sessions =
                            session_delete(w.sessions, r.session_token,
                                           FS.del).sessions],
                       <<"session_delete">>)
    ELSE HandlerResult(response_delete_cookie(response_redirect("/"),
                                              "session_token"), w, <<>>)

\* a dashboard that marks the caller's subscription expired on the way
handle_dashboard_Expires(r, w, t, FS) ==
    HandlerResult(Response(200, "Dashboard"),
                  [w EXCEPT !.st.subscriptions =
                      [a \in DOMAIN @ |->
                         IF a = r.account_id
                         THEN [@[a] EXCEPT !.status = "expired"] ELSE @[a]]],
                  <<>>)

handle_dashboard(r, w, t, FS) ==
    HandlerResult(Response(200, "Dashboard"), w, <<>>)

handle_billing_page(r, w, t, FS) ==
    HandlerResult(Response(200, "Billing"), w, <<>>)

handle_reports_page(r, w, t, FS) ==
    HandlerResult(Response(200, "Reports"), w,
                  <<"entitlement_get_max_report_days",
                    "entitlement_can_export_csv",
                    "entitlement_can_use_grouping">>)

handle_reports_generate(r, w, t, FS) ==
    LET params == ReportParams(r.form)
        checked == report_validate_params(w.st.subscriptions, r.account_id, t,
                                          params.days, params.export_csv,
                                          params.grouping, FS.get)
    IN
    IF r.form \notin ReportForms \cup RangeForms
    THEN HandlerResult(Response(400, "Bad Request"), w, <<>>)
    ELSE IF checked.rc # 0
    THEN HandlerResult(Response(403, "Access Denied"), w, checked.calls)
    ELSE IF report_generate(params.days) # 0
    THEN HandlerResult(Response(500, "Error"), w, checked.calls)
    ELSE HandlerResult(Response(200, "Report Results"), w, checked.calls)

\* an export that is also granted to an account with a payment in the ledger
handle_reports_export_csv_LedgerAware(r, w, t, FS) ==
    IF /\ entitlement_can_export_csv(w.st.subscriptions, r.account_id, t, FS.get) = 0
       /\ ~\E i \in 1..Len(w.st.billing_events) :
             w.st.billing_events[i].event_type = "payment_received"
    THEN HandlerResult(Response(403, "Access Denied"), w,
                       <<"entitlement_can_export_csv">>)
    ELSE HandlerResult(Response(200, "report.csv"), w,
                       <<"entitlement_can_export_csv">>)

handle_reports_export_csv(r, w, t, FS) ==
    IF entitlement_can_export_csv(w.st.subscriptions, r.account_id, t, FS.get) = 0
    THEN HandlerResult(Response(403, "Access Denied"), w,
                       <<"entitlement_can_export_csv">>)
    ELSE HandlerResult(Response(200, "report.csv"), w,
                       <<"entitlement_can_export_csv">>)

handle_admin_billing_page(r, w, t, FS) ==
    HandlerResult(Response(200, "Admin Billing"), w, <<>>)

handle_admin_search_accounts(r, w, t, FS) ==
    HandlerResult(Response(200, "Search Accounts"), w, <<>>)

\* the mark-paid form of the model names account 1, plan pro, 30 days, $49
MarkPaid(r, w, t, FS) ==
    Only({HandlerResult(h.resp, [w EXCEPT !.st = h.st],
                        IF r.form = "paid"
                        THEN <<"billing_mark_as_paid", "subscription_update">>
                        ELSE <<>>) :
            h \in {handle_admin_mark_paid(w.st, t, r, r.form = "paid", 1, "pro",
                                          30, 4900, "paid", FS.F, FS.F.log)}})

(***************************************************************************)
(* router.c                                                                *)
(***************************************************************************)
\* a registration that drops the admin flag
Route_NeverAdmin(method, path, handler, requires_auth, requires_admin) ==
    [method |-> method, path |-> path, handler |-> handler,
     requires_auth |-> requires_auth, requires_admin |-> 0]

Route(method, path, handler, requires_auth, requires_admin) ==
    [method |-> method, path |-> path, handler |-> handler,
     requires_auth |-> requires_auth, requires_admin |-> requires_admin]

\* routes_register_all, in registration order
routes ==
    << Route("GET", "/", "handle_home_page", 0, 0),
       Route("GET", "/login", "handle_login_page", 0, 0),
       Route("POST", "/login", "handle_login_submit", 0, 0),
       Route("GET", "/logout", "handle_logout", 0, 0),
       Route("GET", "/dashboard", "handle_dashboard", 1, 0),
       Route("GET", "/billing", "handle_billing_page", 1, 0),
       Route("GET", "/reports", "handle_reports_page", 1, 0),
       Route("POST", "/reports/generate", "handle_reports_generate", 1, 0),
       Route("GET", "/reports/export", "handle_reports_export_csv", 1, 0),
       Route("GET", "/admin/billing", "handle_admin_billing_page", 1, 1),
       Route("POST", "/admin/billing/mark-paid", "handle_admin_mark_paid", 1, 1),
       Route("POST", "/admin/search", "handle_admin_search_accounts", 1, 1) >>

\* routes[i].handler(req)
CallHandler(handler, r, w, t, FS) ==
    CASE handler = "handle_home_page" -> handle_home_page(r, w, t, FS)
      [] handler = "handle_login_page" -> handle_login_page(r, w, t, FS)
      [] handler = "handle_login_submit" -> handle_login_submit(r, w, t, FS)
      [] handler = "handle_logout" -> handle_logout(r, w, t, FS)
      [] handler = "handle_dashboard" -> handle_dashboard(r, w, t, FS)
      [] handler = "handle_billing_page" -> handle_billing_page(r, w, t, FS)
      [] handler = "handle_reports_page" -> handle_reports_page(r, w, t, FS)
      [] handler = "handle_reports_generate" -> handle_reports_generate(r, w, t, FS)
      [] handler = "handle_reports_export_csv" -> handle_reports_export_csv(r, w, t, FS)
      [] handler = "handle_admin_billing_page" -> handle_admin_billing_page(r, w, t, FS)
      [] handler = "handle_admin_mark_paid" -> MarkPaid(r, w, t, FS)
      [] handler = "handle_admin_search_accounts" ->
            handle_admin_search_accounts(r, w, t, FS)

\* indexes of the routes whose method and path match the request
Matching(r) ==
    {i \in 1..Len(routes) : routes[i].method = r.method /\ routes[i].path = r.path}

\* the first matching route
FirstMatch(r) == CHOOSE i \in Matching(r) : \A j \in Matching(r) : i <= j

\* router_handle_request(req): trace lists, in order, the policy verdict,
\* the handler that ran and the calls the handler made
router_handle_request(r, w, t, FS) ==
    IF Matching(r) = {}
    THEN [resp |-> Response(404, "404 Not Found"), w |-> w, route |-> 0,
          trace |-> <<"no route">>]
    ELSE LET route == routes[FirstMatch(r)] IN
         IF route.requires_auth = 1 /\ r.is_authenticated = 0
         THEN [resp |-> response_redirect("/login"), w |-> w,
               route |-> FirstMatch(r), trace |-> <<"authentication required">>]
         ELSE IF route.requires_admin = 1 /\ r.user_role # "admin"
         THEN [resp |-> Response(403, "403 Forbidden"), w |-> w,
               route |-> FirstMatch(r), trace |-> <<"admin access denied">>]
         ELSE Only({[resp |-> h.resp, w |-> h.w, route |-> FirstMatch(r),
                     trace |-> <<"route policy passed", route.handler>>
                               \o h.calls] :
                      h \in {CallHandler(route.handler, r, w, t, FS)}})

(***************************************************************************)
(* server.c: server_handle_client.  raw is what recv delivered: whether    *)
(* request_parse accepts it, the request line, the cookies named session   *)
(* and session_token ("none": the cookie is absent) and the form of the    *)
(* body.  W = [sessions, st, rate_limits] are the tables.  Memory          *)
(* allocation is assumed to succeed, so every handler returns a response.  *)
(***************************************************************************)
\* a context that calls every caller authenticated
Context_Authenticated(raw, identity) ==
    [method |-> raw.method, path |-> raw.path, session |-> raw.session,
     session_token |-> raw.session_token, form |-> raw.form,
     client_ip |-> raw.client_ip,
     is_authenticated |-> 1,
     user_id |-> identity.user_id,
     account_id |-> identity.account_id,
     user_role |-> identity.user_role]

\* the request context: memset and request_parse identify nobody, the
\* identity is what session_validate filled in
Context(raw, identity) ==
    [method |-> raw.method, path |-> raw.path, session |-> raw.session,
     session_token |-> raw.session_token, form |-> raw.form,
     client_ip |-> raw.client_ip,
     is_authenticated |-> identity.is_authenticated,
     user_id |-> identity.user_id,
     account_id |-> identity.account_id,
     user_role |-> identity.user_role]

\* a test that takes every response for NULL
IsNull_Always(response) == response.status >= 0

\* router_handle_request returned NULL
IsNull(response) == response.status = 0

\* a request struct that is not zeroed: without a cookie the request keeps
\* the identity an earlier request of the admin left behind
ValidateCookie_Leftover(raw, W, t, FS) ==
    IF raw.session # "none"
    THEN session_validate(W.sessions, raw.session, t, FS.lookup, FS.update)
    ELSE [ret |-> -1, logs |-> {},
          req |-> [is_authenticated |-> 1, user_id |-> 1,
                   account_id |-> UserRow(1).account_id,
                   user_role |-> UserRow(1).role],
          sessions |-> W.sessions]

\* session_validate when the request carries the cookie named session
ValidateCookie(raw, W, t, FS) ==
    IF raw.session # "none"
    THEN session_validate(W.sessions, raw.session, t, FS.lookup, FS.update)
    ELSE [ret |-> -1, logs |-> {}, req |-> NoReq, sessions |-> W.sessions]

\* the stages of the pipeline a served request went through
Stages(raw, routed) ==
    <<"request_parse", "ratelimit_check_ip">>
    \o (IF raw.session # "none" THEN <<"session_validate">> ELSE <<>>)
    \o <<"router_handle_request">> \o routed.trace

\* send_response of what the router returned, or of the 500 when it is NULL
Respond(raw, W, rate, v, routed) ==
    [sent |-> IF IsNull(routed.resp)
              THEN <<send_error_response(500, "Internal Server Error")>>
              ELSE <<routed.resp>>,
     W |-> [sessions |-> routed.w.sessions, st |-> routed.w.st,
            rate_limits |-> rate.rate_limits],
     req |-> v.req, validated |-> v.ret,
     trace |-> Stages(raw, routed),
     logs |-> rate.logs \cup v.logs
              \cup (IF IsNull(routed.resp) THEN {<<"ERROR", "server">>}
                    ELSE {})]

\* session_validate, then router_handle_request on the context it filled
ValidateAndRoute(raw, W, t, FS, rate) ==
    Only({Only({Respond(raw, W, rate, v, routed) :
                  routed \in {router_handle_request(
                                 Context(raw, v.req),
                                 [sessions |-> v.sessions, st |-> W.st],
                                 t, FS)}}) :
            v \in {ValidateCookie(raw, W, t, FS)}})

\* the pipeline with the session validated before the rate limit is checked
server_handle_client_ValidateFirst(raw, W, t, FS) ==
    IF raw.parse # "ok"
    THEN [sent |-> <<send_error_response(400, "Bad Request")>>,
          W |-> W, req |-> NoReq, validated |-> -1,
          trace |-> <<"request_parse">>,
          logs |-> {<<"WARN", "server">>}]
    ELSE Only({IF rate.result = "RATELIMIT_EXCEEDED"
               THEN [sent |-> <<send_error_response(429, "Too Many Requests")>>,
                     W |-> [W EXCEPT
                              !.rate_limits = rate.rate_limits,
                              !.sessions = ValidateCookie(raw, W, t, FS).sessions],
                     req |-> NoReq, validated |-> -1,
                     trace |-> <<"request_parse">>
                               \o (IF raw.session # "none"
                                   THEN <<"session_validate">> ELSE <<>>)
                               \o <<"ratelimit_check_ip">>,
                     logs |-> rate.logs \cup {<<"WARN", "server">>}]
               ELSE ValidateAndRoute(raw, W, t, FS, rate) :
                 rate \in {ratelimit_check_ip(W.rate_limits, raw.client_ip,
                                              t, FS.rate)}})

\* a pipeline that also turns away a request whose check failed
RateLimited_FailClosed(rate) == rate.result # "RATELIMIT_OK"

\* rate_result == RATELIMIT_EXCEEDED
RateLimited(rate) == rate.result = "RATELIMIT_EXCEEDED"

\* a parse failure that is counted against the client's rate limit
ParseFailed_Counted(raw, W, t) ==
    [sent |-> <<send_error_response(400, "Bad Request")>>,
     W |-> [W EXCEPT !.rate_limits =
               ratelimit_check_ip(W.rate_limits, raw.client_ip, t,
                                  "ok").rate_limits],
     req |-> NoReq, validated |-> -1,
     trace |-> <<"request_parse", "ratelimit_check_ip">>,
     logs |-> {<<"WARN", "server">>}]

\* request_parse failed: the 400 is sent and the connection closed
ParseFailed(raw, W, t) ==
    [sent |-> <<send_error_response(400, "Bad Request")>>,
     W |-> W, req |-> NoReq, validated |-> -1,
     trace |-> <<"request_parse">>,
     logs |-> {<<"WARN", "server">>}]

\* server_handle_client(client_socket), from the request recv delivered to
\* the close of the socket
server_handle_client(raw, W, t, FS) ==
    IF raw.parse # "ok"
    THEN ParseFailed(raw, W, t)
    ELSE Only({IF RateLimited(rate)
               THEN [sent |-> <<send_error_response(429, "Too Many Requests")>>,
                     W |-> [W EXCEPT !.rate_limits = rate.rate_limits],
                     req |-> NoReq, validated |-> -1,
                     trace |-> <<"request_parse", "ratelimit_check_ip">>,
                     logs |-> rate.logs \cup {<<"WARN", "server">>}]
               ELSE ValidateAndRoute(raw, W, t, FS, rate) :
                 rate \in {ratelimit_check_ip(W.rate_limits, raw.client_ip,
                                              t, FS.rate)}})

(***************************************************************************)
(* SpecServer: the request pipeline, one request per step                  *)
(***************************************************************************)
ClientIps == {"ip1"}
Cookies == {"none"} \cup GeneratedTokens

RawRequest(parse, method, path, session, session_token, form) ==
    [parse |-> parse, method |-> method, path |-> path, session |-> session,
     session_token |-> session_token, form |-> form, client_ip |-> "ip1"]

\* requests a client sends: every registered route with and without the
\* session cookie, the forms of the POST routes, a path and two methods no
\* route is registered for, and bytes request_parse rejects
Requests ==
    {RawRequest("ok", "GET", path, c, "none", "none") :
        path \in {"/", "/login", "/dashboard", "/billing", "/reports",
                  "/reports/export", "/admin/billing", "/nope"},
        c \in Cookies}
    \cup {RawRequest("ok", "GET", path, "none", c, "none") :
            path \in {"/logout", "/dashboard"}, c \in Cookies}
    \cup {RawRequest("ok", "POST", "/login", "none", "none", f) :
            f \in LoginForms \cup {"none"}}
    \cup {RawRequest("ok", "POST", "/reports/generate", c, "none", f) :
            c \in Cookies, f \in ReportForms \cup {"none"}}
    \cup {RawRequest("ok", "POST", "/admin/billing/mark-paid", c, "none", f) :
            c \in Cookies, f \in {"paid", "none"}}
    \cup {RawRequest("ok", "POST", "/admin/search", c, "none", "none") :
            c \in Cookies}
    \cup {RawRequest("ok", "POST", "/dashboard", c, "none", "none") :
            c \in Cookies}
    \cup {RawRequest("ok", "HEAD", "/", "none", "none", "none"),
          RawRequest("bad", "", "", "none", "none", "none")}

\* outcomes of the SQLite calls of one request; at most one of them fails
NoServerFault ==
    [rate |-> "ok", lookup |-> "ok", update |-> "ok", create |-> "ok",
     del |-> "ok", get |-> "ok", F |-> NoFault]
ServerFaults ==
    {NoServerFault}
    \cup {[NoServerFault EXCEPT !.rate = v] : v \in RateFaults}
    \cup {[NoServerFault EXCEPT !.lookup = v] : v \in StmtFaults}
    \cup {[NoServerFault EXCEPT !.update = v] : v \in StmtFaults}
    \cup {[NoServerFault EXCEPT !.create = v] : v \in StmtFaults}
    \cup {[NoServerFault EXCEPT !.del = v] : v \in StmtFaults}
    \cup {[NoServerFault EXCEPT !.F = [NoFault EXCEPT !.commit = "full"]]}

\* requests served while a SQLite call fails: one of every stage
FaultedRequests ==
    {RawRequest("ok", "GET", "/dashboard", "t1", "none", "none"),
     RawRequest("ok", "POST", "/login", "none", "none", "login_admin"),
     RawRequest("ok", "GET", "/logout", "none", "t1", "none"),
     RawRequest("ok", "POST", "/admin/billing/mark-paid", "t1", "none", "paid")}

ServerInstants == {Day, Day + RATE_LIMIT_WINDOW + 1}

\* the sessions table with one session of user u that was created a whole
\* session duration before t and last used at t: it expires at t
AgedSession(u, t) ==
    [k \in {"t1"} |->
        [session_create(NoRows, u, "t1", t - SESSION_DURATION_SECONDS,
                        "ok").sessions["t1"] EXCEPT !.last_activity_at = t]]

\* the client has made all but one of the requests its window allows
InitServer ==
    /\ now = Day
    /\ subscriptions = [a \in {1} |-> SeedRow(now)]
    /\ billing_events = <<>>
    /\ committed = [subscriptions |-> subscriptions, billing_events |-> <<>>]
    /\ in_txn = FALSE
    /\ sessions \in {NoRows}
          \cup {session_create(NoRows, u, "t1", now, "ok").sessions :
                  u \in {x \in UserIds : UserRow(x).is_active = 1}}
          \cup {AgedSession(2, now)}
    /\ rate_limits = [k \in {<<"ip1", now>>} |-> MAX_REQUESTS_PER_MINUTE - 1]
    /\ pending = {}
    /\ req = NoReq
    /\ resp = NoResp
    /\ logs = {}
    /\ ret = 0
    /\ call = NoCall

\* accept, serve and close one connection
ServerHandleClient(raw, FS) ==
    \E r \in {server_handle_client(raw,
                                    [sessions |-> sessions, st |-> Store,
                                     rate_limits |-> rate_limits], now, FS)} :
    /\ RowCount(rate_limits, DOMAIN rate_limits)
         < MAX_REQUESTS_PER_MINUTE + MaxRequests
    /\ raw.path = "/admin/billing/mark-paid"
         => Len(billing_events) + 1 < MaxEvents
    /\ SetStore(r.W.st)
    /\ sessions' = r.W.sessions
    /\ rate_limits' = r.W.rate_limits
    /\ req' = r.req
    /\ resp' = r.sent[Len(r.sent)]
    /\ logs' = r.logs
    /\ ret' = r.validated
    /\ call' = [op |-> "server_handle_client", request |-> raw,
                trace |-> r.trace, sent |-> r.sent]
    /\ UNCHANGED <<now, pending>>

\* the clock advances to a later instant
TickServer ==
    /\ \E t \in ServerInstants : t > now /\ now' = t
    /\ call' = [op |-> "tick"]
    /\ UNCHANGED <<subscriptions, billing_events, committed, in_txn, sessions,
                   rate_limits, pending, req, resp, logs, ret>>

NextServer ==
    \/ \E raw \in Requests : ServerHandleClient(raw, NoServerFault)
    \/ \E raw \in FaultedRequests, FS \in ServerFaults :
          ServerHandleClient(raw, FS)
    \/ \E fault \in StmtFaults : SessionCleanupExpired(fault)
    \/ TickServer

SpecServer == InitServer /\ [][NextServer]_vars

(***************************************************************************)
(* Claims about the request pipeline                                       *)
(***************************************************************************)
Served == call.op = "server_handle_client"
HandlerNames == {routes[i].handler : i \in 1..Len(routes)}
InTrace(c, names) == \E i \in 1..Len(c.trace) : c.trace[i] \in names
\* the request passed request_parse and the rate limit and was routed
Routed(c) == InTrace(c, {"router_handle_request"})
\* the route the request matches (0: none)
RouteOf(raw) == IF Matching(raw) = {} THEN 0 ELSE FirstMatch(raw)
AdminRoute(raw) == RouteOf(raw) # 0 /\ routes[RouteOf(raw)].requires_admin = 1
AuthRoute(raw) == RouteOf(raw) # 0 /\ routes[RouteOf(raw)].requires_auth = 1
RedirectsToLogin(response) ==
    response = [status |-> 302, body |-> "", location |-> "/login"]

\* C12: for every route registered as admin-only, a routed request of an
\* authenticated non-admin user is answered 403, a routed request of an
\* unauthenticated caller is answered with a redirect to /login, and the
\* route's handler (handle_admin_mark_paid included) runs only when the
\* request is authenticated and user_role = admin.
C12_AdminRoutesGuarded ==
    Served =>
      /\ AdminRoute(call.request) =>
           /\ InTrace(call, HandlerNames)
                => req.is_authenticated = 1 /\ req.user_role = "admin"
           /\ (Routed(call) /\ req.is_authenticated = 1
                 /\ req.user_role # "admin")
                => resp.status = 403 /\ ~InTrace(call, HandlerNames)
           /\ (Routed(call) /\ req.is_authenticated = 0)
                => RedirectsToLogin(resp) /\ ~InTrace(call, HandlerNames)
      /\ InTrace(call, {"handle_admin_billing_page", "handle_admin_mark_paid",
                        "handle_admin_search_accounts"})
           => req.is_authenticated = 1 /\ req.user_role = "admin"

\* C12 witness: an authenticated non-admin user posted to the mark-paid
\* route and was answered 403
C12_Witness ==
    /\ Served /\ call.request.path = "/admin/billing/mark-paid"
    /\ req.is_authenticated = 1 /\ req.user_role = "user"
    /\ resp.status = 403

\* C13: for every route registered with requires_auth, a routed request
\* without a valid session is answered with a 302 redirect to /login and the
\* route's handler does not run; the handler runs only when session_validate
\* succeeded for this request.
C13_AuthRoutesGuarded ==
    (Served /\ AuthRoute(call.request)) =>
      /\ InTrace(call, HandlerNames)
           => ret = 1 /\ InTrace(call, {"session_validate"})
      /\ (Routed(call) /\ ret # 1)
           => RedirectsToLogin(resp) /\ ~InTrace(call, HandlerNames)

\* C13 witness: a request for the dashboard carried a session cookie that
\* session_validate refused and was redirected to /login
C13_Witness ==
    /\ Served /\ call.request.path = "/dashboard"
    /\ call.request.session = "t1" /\ ret = 0
    /\ RedirectsToLogin(resp)

\* the stage of the pipeline an entry of the trace belongs to
StageOf(x) ==
    CASE x = "request_parse" -> 0
      [] x = "ratelimit_check_ip" -> 1
      [] x = "session_validate" -> 2
      [] x \in {"router_handle_request", "no route", "authentication required",
                "admin access denied", "route policy passed"} -> 3
      [] x \in HandlerNames -> 4
      [] OTHER -> 5
InOrder(trace) ==
    \A i, j \in 1..Len(trace) : i < j => StageOf(trace[i]) <= StageOf(trace[j])
\* calls into the entitlement engine and the subscription store
EngineCalls ==
    {"entitlement_get_max_report_days", "entitlement_can_export_csv",
     "entitlement_can_use_grouping", "billing_mark_as_paid",
     "subscription_update"}
PolicyRejected(c) ==
    InTrace(c, {"authentication required", "admin access denied"})

HandlersRun(c) == Cardinality({i \in 1..Len(c.trace) : c.trace[i] \in HandlerNames})

PaidOk(c, r) == c.op = "handle_admin_mark_paid" /\ c.present /\ r = 0

\* C16: a successful billing_mark_as_paid adds exactly one billing_events
\* row; that row records the plan and status transition together with the
\* payment amount, and it is committed together with the subscription
\* change.
C16_OneLedgerRowPerPayment ==
    [][PaidOk(call', ret')
       => /\ Len(billing_events') = Len(billing_events) + 1
          /\ SubSeq(billing_events', 1, Len(billing_events)) = billing_events
          /\ LET e == billing_events'[Len(billing_events')] IN
               /\ e.account_id = call'.account_id
               /\ e.amount_cents = call'.amount_cents
               /\ e.new_plan = subscriptions'[call'.account_id].plan
               /\ e.new_status = subscriptions'[call'.account_id].status
          /\ (committed'.billing_events = billing_events')
               <=> (committed'.subscriptions = subscriptions')]_vars

\* the scenario's account: free, active, valid for 365 more days
FreeForAYear(table, a, t) ==
    /\ a \in DOMAIN table
    /\ table[a].plan = "free" /\ table[a].status = "active"
    /\ table[a].valid_until = t + 365 * Day

\* the rows a step appended to the ledger
NewEvents(before, after) ==
    {after[i] : i \in (Len(before) + 1)..Len(after)}

\* billing_mark_as_paid(account 1, pro, 30 days, 4900) with every SQLite
\* call succeeding
PaidProFor30Days(c) ==
    /\ c.op = "handle_admin_mark_paid" /\ c.present
    /\ c.account_id = 1 /\ c.plan = "pro"
    /\ c.duration = 30 /\ c.amount_cents = 4900
    /\ c.F = NoFault

\* C17: for an account on the free plan (active, valid for 365 days) the
\* CSV-export check answers 0; after billing_mark_as_paid(pro, 30, 4900)
\* the same check answers 1 with no operation in between, the subscription
\* is pro and active with valid_until 30 days from now, and exactly one of
\* the new billing events has new_plan pro and amount_cents 4900.
C17_FreeToProScenario ==
    [][(PaidProFor30Days(call') /\ FreeForAYear(subscriptions, 1, now))
       => /\ entitlement_can_export_csv(subscriptions, 1, now, "ok") = 0
          /\ entitlement_can_export_csv(subscriptions', 1, now', "ok") = 1
          /\ subscriptions'[1].plan = "pro"
          /\ subscriptions'[1].status = "active"
          /\ subscriptions'[1].valid_until = now + 30 * Day
          /\ Cardinality({e \in NewEvents(billing_events, billing_events') :
                            e.new_plan = "pro" /\ e.amount_cents = 4900}) = 1
      ]_vars

\* C17 witness: the payment went through on the seeded free account; the
\* account is pro for 30 days, exports CSV, and the ledger holds the payment
C17_Witness ==
    /\ PaidProFor30Days(call) /\ ret = 0
    /\ subscriptions[1].plan = "pro" /\ subscriptions[1].valid_until = now + 30 * Day
    /\ billing_events[1].event_type = "subscription_update"
    /\ billing_events[1].previous_plan = "free"
    /\ billing_events[1].previous_status = "active"
    /\ entitlement_can_export_csv(subscriptions, 1, now, "ok") = 1
    /\ \E i \in 1..Len(billing_events) :
          /\ billing_events[i].amount_cents = 4900
          /\ billing_events[i].new_plan = "pro"
    /\ Len(billing_events) = 2

\* the ledger after extends the ledger before: every row is kept, in place
Extends(before, after) ==
    /\ Len(after) >= Len(before)
    /\ SubSeq(after, 1, Len(before)) = before

\* C18: the billing ledger is append-only: no step of any operation modifies
\* or removes a billing_events row that the connection could read before
\* the step, so the ledger after the step extends the ledger before it.
C18_LedgerAppendOnly ==
    [][Extends(billing_events, billing_events')]_vars

\* the account's rows of a ledger, in occurrence order
EventsOf(events, a) == SelectSeq(events, LAMBDA e : e.account_id = a)

\* what the ledger records of a subscription: its plan and its status
PlanStatus(table, a) ==
    IF a \in DOMAIN table
    THEN [plan |-> table[a].plan, status |-> table[a].status]
    ELSE [plan |-> "none", status |-> "none"]

\* applying the recorded transitions in turn, from a given state
RECURSIVE Replay(_, _)
Replay(state, events) ==
    IF events = <<>>
    THEN state
    ELSE Replay([plan |-> Head(events).new_plan,
                 status |-> Head(events).new_status], Tail(events))

\* C19: replaying an account's billing events in occurrence order
\* reconstructs the account's subscription: at every step of
\* subscription_create, subscription_update or billing_mark_as_paid that
\* extends the ledger, applying the account's new events to the plan and
\* status before the step gives the plan and status after it.
C19_ReplayReconstructs ==
    [][\A a \in AccountInputs :
         Extends(billing_events, billing_events')
         => PlanStatus(subscriptions', a)
              = Replay(PlanStatus(subscriptions, a),
                       EventsOf(SubSeq(billing_events',
                                       Len(billing_events) + 1,
                                       Len(billing_events')), a))]_vars

(***************************************************************************)
(* SpecSerial: two calls of subscription_update for one account, requested *)
(* at the same time.  The server has one thread and one connection: its    *)
(* accept loop serves a request to the end before it takes the next, so    *)
(* the calls run one after the other, in either order.                     *)
(***************************************************************************)
\* the calls that may be requested: (plan, status, valid_until)
UpdateCalls ==
    [id : {1, 2}, plan : Plans, status : {STATUS_ACTIVE, STATUS_CANCELLED},
     valid_until : {Day + 30 * Day, Day + 365 * Day}]

\* two calls with different plans
PendingPairs ==
    {P \in {{c1, c2} : c1 \in UpdateCalls, c2 \in UpdateCalls} :
       \E c1 \in P, c2 \in P : c1.id = 1 /\ c2.id = 2 /\ c1.plan # c2.plan}

InitSerial ==
    /\ now = Day
    /\ subscriptions \in {NoRows, [a \in {1} |-> SeedRow(now)]}
    /\ billing_events = <<>>
    /\ committed = [subscriptions |-> subscriptions, billing_events |-> <<>>]
    /\ in_txn = FALSE
    /\ sessions = NoRows
    /\ rate_limits = <<>>
    /\ pending \in PendingPairs
    /\ req = AdminReq
    /\ resp = NoResp
    /\ logs = {}
    /\ ret = 0
    /\ call = NoCall

\* the thread takes one of the waiting calls and runs it to its return
RunUpdate(c, F) ==
    \E r \in {subscription_update(Store, now, 1, c.plan, c.status,
                                   c.valid_until, 1, "memo", F)} :
    /\ c \in pending
    /\ pending' = pending \ {c}
    /\ SetStore(r.st)
    /\ ret' = r.rc
    /\ logs' = r.logs
    /\ call' = [op |-> "subscription_update", account_id |-> 1,
                new_plan |-> c.plan, new_status |-> c.status,
                valid_until |-> c.valid_until, F |-> Consumed(F, r.reached),
                rc |-> r.rc,
                earlier |-> IF call.op = "subscription_update"
                            THEN [call EXCEPT !.earlier = NoCall]
                            ELSE NoCall]
    /\ UNCHANGED <<now, sessions, rate_limits, req, resp>>

NextSerial ==
    \E c \in pending, F \in UpdateFaults : RunUpdate(c, F)

SpecSerial == InitSerial /\ [][NextSerial]_vars

\* both calls have returned 0 and the COMMIT of each succeeded
BothCommitted ==
    /\ pending = {}
    /\ call.op = "subscription_update" /\ call.earlier.op = "subscription_update"
    /\ call.rc = 0 /\ call.earlier.rc = 0
    /\ call.F.commit = "ok" /\ call.earlier.F.commit = "ok"

\* the event is the one a call with these inputs records
EventOfCall(e, c) ==
    /\ e.event_type = "subscription_update"
    /\ e.new_plan = subscription_plan_to_string(c.new_plan)
    /\ e.new_status = subscription_status_to_string(c.new_status)

UpdateEventsOf(events, a) ==
    SelectSeq(events, LAMBDA e : e.account_id = a
                                  /\ e.event_type = "subscription_update")

\* every update event's previous values are the new values of the update
\* event before it
Chained(evs) ==
    \A i \in 2..Len(evs) :
       /\ evs[i].previous_plan = evs[i - 1].new_plan
       /\ evs[i].previous_status = evs[i - 1].new_status

\* C21: the billing event appended by subscription_update records as
\* previous_plan and previous_status the plan and status the account's row
\* held right before the update ('none' without a row), so that each update
\* event's previous values equal the new values of the account's preceding
\* update event.
C21_PreviousIsPrecedingNew ==
    [][\A a \in AccountInputs :
         /\ \A e \in NewEvents(billing_events, billing_events') :
               (e.account_id = a /\ e.event_type = "subscription_update")
               => /\ e.previous_plan = PlanStatus(subscriptions, a).plan
                  /\ e.previous_status = PlanStatus(subscriptions, a).status
         /\ Chained(UpdateEventsOf(billing_events', a))]_vars

\* the operations that write the subscriptions table
BillingOps == {"subscription_update", "subscription_create", "handle_admin_mark_paid"}

\* the row of the account after the step is the row it had before, modified
\* in place: the columns only an INSERT sets are as they were
SameRow(before, after, a) ==
    /\ after[a].created_at = before[a].created_at
    /\ after[a].valid_from = before[a].valid_from
    /\ after[a].grace_until = before[a].grace_until

\* C22: each account has at most one subscription row: the rows of the table
\* are those of existing accounts, one each; a call on an account that has
\* a row modifies that row, and a call that takes the INSERT branch for an
\* account that has a row (its read of the row failed) fails on the UNIQUE
\* constraint instead of adding a second row.
C22_OneRowPerAccount ==
    [][call'.op \in BillingOps =>
         /\ DOMAIN subscriptions' \subseteq AccountIds
         /\ \A a \in DOMAIN subscriptions \cap DOMAIN subscriptions' :
               SameRow(subscriptions, subscriptions', a)
         /\ (/\ call'.account_id \in DOMAIN subscriptions
             /\ call'.F.get # "ok")
            => ret' # 0]_vars

\* C22 witness: an update on the seeded row changed its plan in place
C22_Witness ==
    /\ call.op = "subscription_update" /\ ret = 0
    /\ DOMAIN subscriptions = {1}
    /\ subscriptions[1].plan = "pro"
    /\ subscriptions[1].grace_until = NULL
    /\ Len(billing_events) = 1 /\ billing_events[1].previous_plan = "free"

(***************************************************************************)
(* Claims about what the other operations leave alone                      *)
(***************************************************************************)
\* the step ran subscription_update: called directly, by
\* subscription_create, or by billing_mark_as_paid under the mark-paid
\* handler
RanSubscriptionUpdate(c) ==
    \/ c.op \in BillingOps
    \/ c.op = "server_handle_client" /\ InTrace(c, {"subscription_update"})

\* C23: the subscriptions table and the ledger change only in a step that
\* runs subscription_update: session validation, login, logout, the sweep,
\* the entitlement and validity checks of the report handlers, every other
\* handler and the passage of time leave both as they were.
C23_OnlyUpdateWrites ==
    [][RanSubscriptionUpdate(call')
       \/ UNCHANGED <<subscriptions, billing_events, committed, in_txn>>]_vars

\* C23 witness: with a paid subscription and its ledger rows in the tables,
\* a report was generated for a request whose session was validated
C23_Witness ==
    /\ Served /\ InTrace(call, {"handle_reports_generate"})
    /\ InTrace(call, {"session_validate"})
    /\ InTrace(call, {"entitlement_get_max_report_days"})
    /\ subscriptions[1].plan = "pro"
    /\ Len(billing_events) = 2

(***************************************************************************)
(* Claims about the inputs of the entitlement check                        *)
(***************************************************************************)
\* a subscriptions table that holds the account's row and nothing else
OnlyRow(table, a) == [k \in DOMAIN table \cap {a} |-> table[k]]

\* the answer computed from the account's row, the clock and the feature
AnswerFor(table, a, feature, t) ==
    entitlement_has_feature(OnlyRow(table, a), a, feature, t, "ok").ret

LoggedOut == Served /\ InTrace(call, {"handle_logout"})

Swept(c) == c.op = "session_cleanup_expired" /\ c.fault = "ok"
\* what session_validate answers for a token on a table, storage working
Accepts(table, token, t) == session_validate(table, token, t, "ok", "ok").ret

\* the sweep removes no session that session_validate accepts at the same
\* instant, and session_validate answers the same for every token on the
\* swept table as on the table before the sweep
SweepAgreesWithValidate ==
    [][Swept(call') =>
         /\ \A k \in DOMAIN sessions :
               Accepts(sessions, k, now) = 1 => k \in DOMAIN sessions'
         /\ \A token \in Tokens :
               Accepts(sessions', token, now) = Accepts(sessions, token, now)]_vars

\* C26: a sweep whose DELETE succeeds removes every session with
\* now >= expires_at or now - last_activity_at >= the inactivity window,
\* removes no session that session_validate accepts at the same instant, and
\* leaves the answer of session_validate for every token as it was.
C26_SweepRemovesExpiredAndInactive ==
    [][Swept(call') =>
         /\ \A k \in DOMAIN sessions :
               (\/ now >= sessions[k].expires_at
                \/ now - sessions[k].last_activity_at
                      >= SESSION_INACTIVITY_SECONDS)
               => k \notin DOMAIN sessions'
         /\ \A k \in DOMAIN sessions :
               Accepts(sessions, k, now) = 1 => k \in DOMAIN sessions'
         /\ \A token \in Tokens :
               Accepts(sessions', token, now) = Accepts(sessions, token, now)]_vars

\* the request reached handle_login_submit with a login form
LoginSubmitted(c) ==
    /\ c.op = "server_handle_client"
    /\ InTrace(c, {"handle_login_submit"})
    /\ c.request.form \in LoginForms
\* forms auth_authenticate_user rejects
FailingForms == {f \in LoginForms : auth_authenticate_user(f) < 0}

\* C27: every login that auth_authenticate_user rejects (unknown email,
\* deactivated user, wrong password) is answered with one and the same
\* response, status 200 with the "Login Failed" page and no Set-Cookie, and
\* leaves the sessions table as it was; in particular the answers to a known
\* and an unknown email with the same wrong password are equal.
C27_FailedLoginUniform ==
    [][(LoginSubmitted(call') /\ call'.request.form \in FailingForms)
         => /\ call'.sent = <<Response(200, "Login Failed")>>
            /\ resp' = Response(200, "Login Failed")
            /\ "set_cookie" \notin DOMAIN resp'
            /\ sessions' = sessions
            /\ ~InTrace(call', {"session_create"})]_vars

\* a login with an email no user has was answered
C27_Witness ==
    /\ LoginSubmitted(call)
    /\ call.request.form = "login_unknown"
    /\ resp.status = 200
    /\ {"login_wrong", "login_unknown", "login_inactive"} \subseteq FailingForms

\* tokens whose row the step wrote, and tokens whose row it removed
CreatedTokens(before, after) == DOMAIN after \ DOMAIN before
RemovedTokens(before, after) == DOMAIN before \ DOMAIN after
\* the login was answered with the redirect to the dashboard
LoginSucceeded(c, response) ==
    LoginSubmitted(c) /\ response.status = 302
\* a login of user 1 while the INSERT of session_create fails as f
LoginWhileCreateFails(f) ==
    handle_login_submit(
        Context(RawRequest("ok", "POST", "/login", "none", "none", "login_admin"),
                NoReq),
        [sessions |-> sessions, st |-> Store], now,
        [NoServerFault EXCEPT !.create = f])

\* C28: a step writes a session row only when it is a login answered with
\* the redirect to the dashboard, and such a login writes exactly one row,
\* with created_at = last_activity_at = now and expires_at = now + the
\* session duration, under the token its Set-Cookie hands out; a step
\* removes a session row only when it is a logout or the sweep; a login
\* answered otherwise writes no row and sets no cookie; and when the INSERT
\* of session_create fails, session_create returns -1 without a token and
\* the login is answered 500 without a Set-Cookie and without a row.
C28_SessionLifecycle ==
    [][/\ CreatedTokens(sessions, sessions') # {} => LoginSucceeded(call', resp')
       /\ LoginSucceeded(call', resp')
             => /\ Cardinality(CreatedTokens(sessions, sessions')) = 1
                /\ "set_cookie" \in DOMAIN resp'
                /\ resp'.set_cookie.name = "session_token"
                /\ CreatedTokens(sessions, sessions') = {resp'.set_cookie.value}
                /\ \A k \in CreatedTokens(sessions, sessions') :
                      /\ sessions'[k].created_at = now
                      /\ sessions'[k].last_activity_at = now
                      /\ sessions'[k].expires_at = now + SESSION_DURATION_SECONDS
                      /\ sessions'[k].user_id
                            = auth_authenticate_user(call'.request.form)
       /\ RemovedTokens(sessions, sessions') # {}
             => \/ call'.op = "session_cleanup_expired"
                \/ /\ call'.op = "server_handle_client"
                   /\ InTrace(call', {"handle_logout"})
                   /\ RemovedTokens(sessions, sessions')
                        = {call'.request.session_token}
       /\ (LoginSubmitted(call') /\ resp'.status # 302)
             => /\ "set_cookie" \notin DOMAIN resp'
                /\ CreatedTokens(sessions, sessions') = {}
       /\ \A f \in {"prepare", "step"} :
             /\ session_create(sessions, 1, "t1", now, f).rc = -1
             /\ session_create(sessions, 1, "t1", now, f).token_out = "none"
             /\ session_create(sessions, 1, "t1", now, f).sessions = sessions
             /\ LoginWhileCreateFails(f).resp = Response(500, "Error")
             /\ LoginWhileCreateFails(f).w.sessions = sessions]_vars

\* a login was answered 500 and the sessions table is empty
C28_Witness ==
    /\ LoginSubmitted(call)
    /\ resp.status = 500
    /\ sessions = NoRows

(***************************************************************************)
(* Claims about unparsable requests and the session lifetime               *)
(***************************************************************************)
\* C29: a request that request_parse rejects gets exactly one response, the
\* 400, and nothing after request_parse runs for it: no rate-limit record
\* is written, no session is validated or touched, no route is looked up,
\* no handler runs, and the request identifies nobody.
C29_UnparsableStopsAtParse ==
    [][(call'.op = "server_handle_client" /\ call'.request.parse # "ok")
         => /\ call'.sent = <<Response(400, "Bad Request")>>
            /\ resp'.status = 400
            /\ call'.trace = <<"request_parse">>
            /\ rate_limits' = rate_limits
            /\ sessions' = sessions
            /\ UNCHANGED <<subscriptions, billing_events, committed, in_txn>>
            /\ req' = NoReq
            /\ ret' = -1]_vars

\* an unparsable request was answered while the client's window was full
C29_Witness ==
    /\ Served
    /\ call.request.parse # "ok"
    /\ resp.status = 400
    /\ RowCount(rate_limits, {k \in DOMAIN rate_limits : k[2] = now})
          >= MAX_REQUESTS_PER_MINUTE

\* config_load: the default of SESSION_EXPIRY_SECONDS, 30 days
session_expiry_seconds == 2592000

\* C30: session_validate, with the storage working, accepts a session that
\* has a row and has been idle for at most session_expiry_seconds (30 days)
\* and rejects one that has been idle for longer.
C30_IdleForThirtyDays ==
    [][(/\ call'.op = "session_validate"
        /\ call'.lookup = "ok" /\ call'.update \in {"ok", "not reached"}
        /\ LookupFindsRow(sessions, call'.token))
         => (ret' = 1 <=> now - sessions[call'.token].last_activity_at
                            <= session_expiry_seconds)]_vars

(***************************************************************************)
(* Claims about session tokens and the request's identity                  *)
(***************************************************************************)
\* C31: session_create either stores one row under a token that no row of
\* the table held, leaving every other row as it was, or it returns -1 and
\* leaves the table as it was; a token the table already holds is never
\* stored again.
C31_TokensUnique ==
    [][call'.op = "session_create" =>
         \/ /\ ret' = 0
            /\ call'.token \notin DOMAIN sessions
            /\ DOMAIN sessions' = DOMAIN sessions \cup {call'.token}
            /\ \A k \in DOMAIN sessions : sessions'[k] = sessions[k]
         \/ /\ ret' = -1
            /\ sessions' = sessions]_vars

\* session_create was called with the token of an existing row, failed, and
\* the row is still there
C31_Witness ==
    /\ call.op = "session_create"
    /\ call.fault = "ok"
    /\ ret = -1
    /\ call.token \in DOMAIN sessions
    /\ sessions[call.token].created_at < now

\* the request carries the cookie a Set-Cookie header issued and no other
CarriesCookie(raw, cookie) ==
    /\ raw.session = (IF cookie.name = "session" THEN cookie.value ELSE "none")
    /\ raw.session_token
          = (IF cookie.name = "session_token" THEN cookie.value ELSE "none")
\* the Set-Cookie of a login that creates the session of token k
IssuedCookie(k) ==
    handle_login_submit(
        Context(RawRequest("ok", "POST", "/login", "none", "none", "login_user"),
                NoReq),
        [sessions |-> NoRows, st |-> Store], now, NoServerFault).resp.set_cookie

\* C32: when a routed request to a route that requires a session carries
\* exactly the cookie handle_login_submit issues for a token whose session
\* exists and is neither expired nor inactive, the request is identified as
\* authenticated for the session's user and the route's handler runs.
C32_LoginRoundTrip ==
    [][\A k \in DOMAIN sessions :
         (/\ call'.op = "server_handle_client"
          /\ Routed(call')
          /\ AuthRoute(call'.request)
          /\ IssuedCookie(k).value = k
          /\ CarriesCookie(call'.request, IssuedCookie(k))
          /\ Accepts(sessions, k, now) = 1)
         => /\ req'.is_authenticated = 1
            /\ req'.user_id = sessions[k].user_id
            /\ InTrace(call', HandlerNames)]_vars

\* the identity session_validate fills in for the session of token k
IdentityOf(table, k) ==
    [is_authenticated |-> 1, user_id |-> table[k].user_id,
     account_id |-> UserRow(table[k].user_id).account_id,
     user_role |-> UserRow(table[k].user_id).role]

\* C33: whatever identity the previous request had, a request's context
\* identifies a user only when the request was parsed, passed the rate
\* limit, carried a session cookie and session_validate accepted that token;
\* the identity is then the one of that token's session, and in every other
\* case is_authenticated is 0 and user id, account id and role are empty.
C33_NoCarryOver ==
    [][call'.op = "server_handle_client" =>
         /\ req' # NoReq
               => /\ InTrace(call', {"session_validate"})
                  /\ ret' = 1
                  /\ call'.request.session \in DOMAIN sessions
                  /\ Accepts(sessions, call'.request.session, now) = 1
                  /\ req' = IdentityOf(sessions, call'.request.session)
         /\ ret' # 1 => req' = NoReq]_vars

\* a request without a session cookie identifies nobody although a request
\* before it, at the same instant after the start, was authenticated with
\* the session that is still valid
C33_Witness ==
    /\ Served
    /\ call.request.session = "none"
    /\ Routed(call)
    /\ req = NoReq
    /\ now > Day
    /\ "t1" \in DOMAIN sessions
    /\ sessions["t1"].created_at < now
    /\ sessions["t1"].last_activity_at = now

\* what handle_logout leaves of the sessions table when the request carries
\* the cookie session_token = k and the DELETE succeeds
AfterLogout(k) ==
    handle_logout(
        Context(RawRequest("ok", "GET", "/logout", "none", k, "none"), NoReq),
        [sessions |-> sessions, st |-> Store], now, NoServerFault).w.sessions

\* when the DELETE of session_delete succeeds, the logout of token k leaves
\* no row for k, session_validate rejects k, and every other row is as it was
LogoutFinalWhenDeleted ==
    \A k \in Tokens :
       /\ k \notin DOMAIN AfterLogout(k)
       /\ Accepts(AfterLogout(k), k, now) = 0
       /\ \A other \in DOMAIN sessions \ {k} :
             other \in DOMAIN AfterLogout(k)
             /\ AfterLogout(k)[other] = sessions[other]

\* C34: after a request that reaches handle_logout with the session cookie
\* of token k, the sessions table has no row for k, session_validate rejects
\* k, and the rows of all other tokens are as they were.
C34_LogoutFinal ==
    [][(/\ call'.op = "server_handle_client"
        /\ InTrace(call', {"handle_logout"})
        /\ call'.request.session_token # "none")
         => /\ call'.request.session_token \notin DOMAIN sessions'
            /\ Accepts(sessions', call'.request.session_token, now) = 0
            /\ \A other \in DOMAIN sessions \ {call'.request.session_token} :
                  other \in DOMAIN sessions'
                  /\ sessions'[other] = sessions[other]]_vars

(***************************************************************************)
(* SpecRate: ratelimit_check_ip called for two clients around the end of   *)
(* a window                                                                *)
(***************************************************************************)
RateIps == {"ip1", "ip2"}
\* the start, a later instant of its window, the last instant whose window
\* (t - RATE_LIMIT_WINDOW, t] holds the start, and the first whose window
\* does not
RateInstants ==
    {Day, Day + 30, Day + RATE_LIMIT_WINDOW - 1, Day + RATE_LIMIT_WINDOW}

\* ratelimit_result_t
ratelimit_result(name) ==
    CASE name = "RATELIMIT_OK" -> 0
      [] name = "RATELIMIT_EXCEEDED" -> 1
      [] OTHER -> 2

\* the first client has made all but one of the requests its window allows
InitRate ==
    /\ now = Day
    /\ rate_limits = [k \in {<<"ip1", now>>} |-> MAX_REQUESTS_PER_MINUTE - 1]
    /\ subscriptions = NoRows
    /\ billing_events = <<>>
    /\ committed = [subscriptions |-> NoRows, billing_events |-> <<>>]
    /\ in_txn = FALSE
    /\ sessions = NoRows
    /\ pending = {}
    /\ req = NoReq
    /\ resp = NoResp
    /\ logs = {}
    /\ ret = 0
    /\ call = NoCall

\* one call of ratelimit_check_ip
RatelimitCheckIp(ip, fault) ==
    \E r \in {ratelimit_check_ip(rate_limits, ip, now, fault)} :
    /\ RowCount(rate_limits, DOMAIN rate_limits)
         < MAX_REQUESTS_PER_MINUTE - 1 + MaxChecks
    /\ rate_limits' = r.rate_limits
    /\ ret' = ratelimit_result(r.result)
    /\ logs' = r.logs
    /\ call' = [op |-> "ratelimit_check_ip", ip |-> ip, fault |-> fault,
                result |-> r.result]
    /\ UNCHANGED <<now, subscriptions, billing_events, committed, in_txn,
                   sessions, pending, req, resp>>

\* the clock advances to a later instant
TickRate ==
    /\ \E t \in RateInstants : t > now /\ now' = t
    /\ call' = [op |-> "tick"]
    /\ UNCHANGED <<subscriptions, billing_events, committed, in_txn, sessions,
                   rate_limits, pending, req, resp, logs, ret>>

NextRate ==
    \/ \E ip \in RateIps, fault \in RateFaults : RatelimitCheckIp(ip, fault)
    \/ TickRate

SpecRate == InitRate /\ [][NextRate]_vars

\* rows of the identifier with a timestamp in (t - RATE_LIMIT_WINDOW, t]
InWindow(table, identifier, t) ==
    RowCount(table, {k \in DOMAIN table :
                        /\ k[1] = identifier
                        /\ k[2] > t - RATE_LIMIT_WINDOW
                        /\ k[2] <= t})
\* the rows of one identifier
RowsOf(table, identifier) ==
    [k \in {x \in DOMAIN table : x[1] = identifier} |-> table[k]]

Recorded(table, raw) ==
    RequestCount(table, raw.client_ip, now - RATE_LIMIT_WINDOW)
\* the dashboard request served while the rate-limit check fails as f
ServedWhileCheckFails(f) ==
    server_handle_client(
        RawRequest("ok", "GET", "/dashboard", "none", "none", "none"),
        [sessions |-> sessions, st |-> Store, rate_limits |-> rate_limits],
        now, [NoServerFault EXCEPT !.rate = f])

\* C36: a parsed request is answered 429 only when the client's window is
\* full, and every parsed request that is not answered 429 goes on to the
\* router; when the count or the INSERT of ratelimit_check_ip fails, the
\* check answers RATELIMIT_ERROR and the request is routed all the same,
\* with the rate-limit table left as it was.
C36_OnlyExceededRejects ==
    [][/\ (call'.op = "server_handle_client" /\ call'.request.parse = "ok")
          => /\ resp'.status = 429
                  => /\ Recorded(rate_limits, call'.request)
                          >= MAX_REQUESTS_PER_MINUTE
                     /\ rate_limits' = rate_limits
                     /\ ~Routed(call')
             /\ call'.sent # <<send_error_response(429, "Too Many Requests")>>
                  => Routed(call')
       /\ \A f \in RateFaults \ {"ok"} :
            \E r \in {ServedWhileCheckFails(f)} :
               ratelimit_check_ip(rate_limits, "ip1", now, f).result
                  = "RATELIMIT_ERROR"
               => /\ InTrace(r, {"router_handle_request"})
                  /\ r.W.rate_limits = rate_limits
                  /\ r.sent[1].status # 429]_vars

\* a request was routed although its rate-limit check failed and the
\* client's window was already full
C36_Witness ==
    /\ Served
    /\ Routed(call)
    /\ <<"ERROR", "ratelimit">> \in logs
    /\ Recorded(rate_limits, call.request) >= MAX_REQUESTS_PER_MINUTE

(***************************************************************************)
(* Claims about grace, the payment period and report gating                *)
(***************************************************************************)
\* the account's subscription is expired or cancelled
Lapsed(table, a) == table[a].status \in {"expired", "cancelled"}

PaidInstants == {3600, 7200, 10800}

\* duration_days: none, a day, a month, the largest whose product fits an
\* int, the smallest whose product does not, and one whose product wraps
\* past zero
DurationInputs == {0, 1, 30, 24855, 24856, 49710}

\* what a build makes of the overflowing product: the wrapped 32-bit result
\* of the multiply instruction, or a trap that ends the process (-ftrapv,
\* -fsanitize=signed-integer-overflow)
OverflowOutcomes == {"wrap", "trap"}

InitPaid ==
    /\ now = 3600
    /\ subscriptions \in {NoRows, [a \in {1} |-> SeedRow(now)]}
    /\ billing_events = <<>>
    /\ committed = [subscriptions |-> subscriptions, billing_events |-> <<>>]
    /\ in_txn = FALSE
    /\ sessions = NoRows
    /\ req = AdminReq
    /\ resp = NoResp
    /\ logs = {}
    /\ ret = 0
    /\ call = NoCall
    /\ rate_limits = <<>>
    /\ pending = {}

\* billing_mark_as_paid called by the admin handler with the duration of the
\* form; the storage works
BillingMarkAsPaid(account_id, plan, duration_days, outcome) ==
    /\ Len(billing_events) < 2 * MaxEvents
    /\ outcome = "trap" => ProductOverflows(duration_days)
    /\ \E r \in {billing_mark_as_paid(Store, now, account_id, plan,
                                      duration_days, 4900, 1, "paid",
                                      NoFault, "ok")} :
          IF ProductOverflows(duration_days) /\ outcome = "trap"
          THEN /\ call' = [op |-> "billing_mark_as_paid",
                           account_id |-> account_id, plan |-> plan,
                           duration_days |-> duration_days,
                           ended |-> "trapped"]
               /\ UNCHANGED <<subscriptions, billing_events, committed,
                              in_txn, logs, ret>>
          ELSE /\ SetStore(r.st)
               /\ ret' = r.rc
               /\ logs' = r.logs
               /\ call' = [op |-> "billing_mark_as_paid",
                           account_id |-> account_id, plan |-> plan,
                           duration_days |-> duration_days,
                           ended |-> "returned"]
    /\ UNCHANGED <<now, sessions, req, resp, rate_limits, pending>>

TickPaid ==
    /\ \E t \in PaidInstants : t > now /\ now' = t
    /\ call' = [op |-> "tick"]
    /\ UNCHANGED <<subscriptions, billing_events, committed, in_txn, sessions,
                   rate_limits, pending, req, resp, logs, ret>>

NextPaid ==
    \/ \E a \in AccountInputs, plan \in {PLAN_PRO, PLAN_ENTERPRISE}, d \in DurationInputs, outcome \in OverflowOutcomes :
          BillingMarkAsPaid(a, plan, d, outcome)
    \/ TickPaid

SpecPaid == InitPaid /\ [][NextPaid]_vars

\* the stored valid_until is t plus duration_days whole days; the difference
\* is taken apart by division, the product itself may be beyond the integers
\* of the model
ExactlyDaysAfter(valid_until, t, duration_days) ==
    /\ (valid_until - t) % (24 * 60 * 60) = 0
    /\ (valid_until - t) \div (24 * 60 * 60) = duration_days

\* C38: for every duration_days >= 0 that an int can hold, a successful
\* billing_mark_as_paid stores valid_until = now + duration_days * 86400
\* exactly, so the stored valid_until is never earlier than now
C38_ValidUntilExact ==
    [][(/\ call'.op = "billing_mark_as_paid"
        /\ call'.ended = "returned"
        /\ call'.duration_days >= 0
        /\ ret' = 0)
          => /\ call'.account_id \in DOMAIN subscriptions'
             /\ ExactlyDaysAfter(subscriptions'[call'.account_id].valid_until,
                                 now, call'.duration_days)
             /\ subscriptions'[call'.account_id].valid_until >= now]_vars

\* the claim's statement holds for the durations whose product fits an int
ValidUntilExactWhenProductFits ==
    [][(/\ call'.op = "billing_mark_as_paid"
        /\ call'.ended = "returned"
        /\ call'.duration_days >= 0
        /\ ~ProductOverflows(call'.duration_days)
        /\ ret' = 0)
          => /\ call'.account_id \in DOMAIN subscriptions'
             /\ ExactlyDaysAfter(subscriptions'[call'.account_id].valid_until,
                                 now, call'.duration_days)
             /\ subscriptions'[call'.account_id].valid_until >= now]_vars

(***************************************************************************)
(* SpecReports: the report handlers over every stored subscription row     *)
(***************************************************************************)
InitReports ==
    /\ now \in 1..MaxT
    /\ subscriptions \in UNION {[S -> StoredRows] : S \in SUBSET AccountIds}
    /\ billing_events = <<>>
    /\ committed = [subscriptions |-> subscriptions, billing_events |-> <<>>]
    /\ in_txn = FALSE
    /\ sessions = NoRows
    /\ req = NoReq
    /\ resp = NoResp
    /\ logs = {}
    /\ ret = 0
    /\ call = NoCall
    /\ rate_limits = <<>>
    /\ pending = {}

\* the request context of an authenticated user of the account
UserReq(account_id, form) ==
    [is_authenticated |-> 1, user_id |-> 2, account_id |-> account_id,
     user_role |-> "user", form |-> form]

\* POST /reports/generate of an authenticated user
HandleReportsGenerate(account_id, form, fault) ==
    /\ \E r \in {handle_reports_generate(
                    UserReq(account_id, form),
                    [sessions |-> sessions, st |-> Store], now,
                    [NoServerFault EXCEPT !.get = fault])} :
          /\ resp' = r.resp
          /\ call' = [op |-> "handle_reports_generate",
                      account_id |-> account_id, form |-> form,
                      fault |-> fault, calls |-> r.calls]
    /\ req' = UserReq(account_id, form)
    /\ UNCHANGED <<now, subscriptions, billing_events, committed, in_txn,
                   sessions, rate_limits, pending, logs, ret>>

\* GET /reports/export of an authenticated user
HandleReportsExportCsv(account_id, fault) ==
    /\ \E r \in {handle_reports_export_csv(
                    UserReq(account_id, "none"),
                    [sessions |-> sessions, st |-> Store], now,
                    [NoServerFault EXCEPT !.get = fault])} :
          /\ resp' = r.resp
          /\ call' = [op |-> "handle_reports_export_csv",
                      account_id |-> account_id, form |-> "none",
                      fault |-> fault, calls |-> r.calls]
    /\ req' = UserReq(account_id, "none")
    /\ UNCHANGED <<now, subscriptions, billing_events, committed, in_txn,
                   sessions, rate_limits, pending, logs, ret>>

TickReports ==
    /\ now < MaxT + 1
    /\ now' = now + 1
    /\ call' = [op |-> "tick"]
    /\ UNCHANGED <<subscriptions, billing_events, committed, in_txn, sessions,
                   rate_limits, pending, req, resp, logs, ret>>

NextReports ==
    \/ \E a \in AccountIds, form \in ReportForms \cup RangeForms \cup {"none"}, fault \in GetFaults :
          HandleReportsGenerate(a, form, fault)
    \/ \E a \in AccountIds, fault \in GetFaults : HandleReportsExportCsv(a, fault)
    \/ TickReports

SpecReports == InitReports /\ [][NextReports]_vars

\* the plan the account is entitled by: the plan of its row while the row
\* is valid, "none" without a row or with an invalid one
EntitledPlan(table, a, t) ==
    IF a \notin DOMAIN table THEN "none"
    ELSE IF subscription_is_valid(
               subscription_get_by_account(table, a, "ok").sub, t) = 0
    THEN "none"
    ELSE table[a].plan

\* the longest range of the plan, in days
RangeLimit(plan) ==
    CASE plan = "pro" -> 90
      [] plan = "enterprise" -> 365
      [] OTHER -> 7

\* handle_reports_generate went on to report_generate: it answered with the
\* report or with the error of report_generate
CalledReportGenerate ==
    /\ call.op = "handle_reports_generate"
    /\ resp.status \in {200, 500}

====
